---------------------------- MODULE Spec2Model ----------------------------
(***************************************************************************)
(* Model of the static code quality analysis engine                        *)
(* (src/mcp_servers/code_quality_server.py, class CodeQualityAnalyzer) and *)
(* of the way MCPClient shares one analyzer instance (src/mcp_client.py).  *)
(*                                                                         *)
(* Text.  The analyzed text is a Python str.  It is modelled as a sequence *)
(* of whole source lines ("pieces"), each piece being the literal text of  *)
(* the line.  Every scan the analyzer makes (a substring test, str.count,  *)
(* re.search, re.findall) is modelled by Lex, which gives for one piece    *)
(* what that scan finds in it; the scan of a text is the sum (or the       *)
(* concatenation) over its pieces.  Pieces are whole lines, and no pattern *)
(* of the analyzer matches across the line breaks of these pieces.         *)
(*                                                                         *)
(* Numbers.  Kilobyte quantities are kept in bytes (1/1024 kB) and rounded *)
(* values in the unit of their last printed digit, so that the arithmetic  *)
(* is exact integer arithmetic.                                            *)
(***************************************************************************)
EXTENDS Integers, Sequences, FiniteSets, TLC

VARIABLES
    code,                \* self.code
    board,               \* self.board
    issues,              \* self.issues
    quality_score,       \* self.quality_score
    int_max_str_digits,  \* the interpreter's limit on int(str) (0: no limit)
    req,                 \* the two requests (code, board) the callers make
    last,                \* which request the last sequential call served
    ret,                 \* outcome of the last sequential analyze call
    first,               \* outcome of the first sequential call of each request
    frames,              \* one analyze activation per concurrent caller
    response_cache,      \* the ResponseCache instance
    clock,               \* the time datetime.now() and time.time() read
    lru,                 \* history: the cached keys, least recently used first
    evicted,             \* history: what the last set removed to make room
    llm_calls,           \* number of requests sent to the LLM backend
    src_files,           \* the .cpp files of PLATFORMIO_SRC_PATH, oldest first
    docs_files,          \* the files of DOCS_PATH
    http,                \* the last generate-code request and its response
    succeeded,           \* history: when each request was last answered 200
    retry                \* the activation of a retry_with_backoff wrapper

service == <<response_cache, clock, lru, evicted, llm_calls, src_files,
             docs_files, http, succeeded, retry>>

vars == <<code, board, issues, quality_score, int_max_str_digits,
          req, last, ret, first, frames, response_cache, clock, lru,
          evicted, llm_calls, src_files, docs_files, http, succeeded, retry>>

(***************************************************************************)
(* Bounds of the model.                                                    *)
(***************************************************************************)
MaxLen == 2          \* pieces in an analyzed text
MaxBody == 3         \* lines in the body of a text made for the rule sets
MaxAllocs == 2       \* malloc lines, and free lines, in a text
MaxLong == 4         \* print lines with a literal of 10 characters in a text
MaxPrints == 7       \* print lines in a text made for the serial rule
MaxIfs == 2          \* if lines in a text
MaxMarks == 3        \* comment lines, and helper functions, in a text
MaxClock == 2       \* the clock stops at this time
MaxTtl == 2         \* ttl_minutes of the caches of SpecCache
MaxSize == 2        \* max_size of the caches of SpecCache
MaxLookups == 3     \* calls of get between two calls of clear
MaxRequests == 2    \* generate-code requests of a run
MaxRetries == 3     \* max_retries of the wrappers of SpecRetry

(***************************************************************************)
(* Python values handed to analyze.  A value carries its type; a str code  *)
(* carries its text, a str board id its characters.                        *)
(***************************************************************************)
Str(t) == [ty |-> "str", text |-> t]
NoneVal == [ty |-> "NoneType", text |-> <<>>]    \* None, as the code
ListVal == [ty |-> "list", text |-> <<>>]        \* [], as the code
IntBoard == [ty |-> "int", text |-> "42"]        \* 42, as the board id
ListBoard == [ty |-> "list", text |-> "[]"]      \* [], as the board id

IsStr(v) == v.ty = "str"

\* hash(v) raises TypeError for a list; None, int and str are hashable.
Hashable(v) == v.ty # "list"

(***************************************************************************)
(* Numeric literals of the text: `zeros` leading "0" characters followed   *)
(* by the decimal digits `digits`.                                         *)
(***************************************************************************)
Lit(z, d) == [zeros |-> z, digits |-> d]

NumChars(lit) == lit.zeros + Len(lit.digits)

RECURSIVE DigitsValue(_)
DigitsValue(d) ==
    IF d = <<>> THEN 0
    ELSE 10 * DigitsValue(SubSeq(d, 1, Len(d) - 1)) + d[Len(d)]

\* int(s) of a digit string: CPython refuses a string longer than the
\* interpreter's int_max_str_digits (when that limit is on) with ValueError.
IntRaises(lit, limit) == limit > 0 /\ NumChars(lit) > limit

IntOf(lit) == DigitsValue(lit.digits)

INT_MAX_STR_DIGITS == 4300

(***************************************************************************)
(* Lex: what the analyzer's scans find in one piece of text.               *)
(*   chars     len(piece)                                                  *)
(*   newlines  piece.count('\n')                                           *)
(*   setup     "void setup()" in piece or "void setup (" in piece          *)
(*   loop      "void loop()" in piece or "void loop (" in piece            *)
(*   unsized   re.search(r'char\s+\w+\s*\[\s*\]', piece)                   *)
(*   sized     re.findall(r'char\s+\w+\s*\[\s*(\d+)\s*\]', piece)          *)
(*   mallocs   piece.count('malloc')                                       *)
(*   frees     piece.count('free')                                         *)
(*   longstr   len(re.findall(r'Serial\.print(?:ln)?\s*\(\s*"[^"]{10,}"'))*)
(*   delays    re.findall(r'delay\s*\(\s*(\d+)\s*\)', piece)               *)
(*   infinite  re.search(r'while\s*\(\s*1\s*\)|while\s*\(\s*true\s*\)')    *)
(*   prints    piece.count('Serial.print')                                 *)
(*   delayword 'delay' in piece                                            *)
(*   begin     "Serial.begin" in piece                                     *)
(*   ifs       piece.count('if (')                                         *)
(*   const     'const' in piece                                            *)
(*   comments  piece.count('//') + piece.count('/*')                       *)
(*   functions len(re.findall(function_pattern, piece))                    *)
(*   globals   len(re.findall(r'^\s*(int|...|char|...)\s+\w+', re.M))      *)
(*   arrays    len(re.findall(r'\[\s*\d+\s*\]', piece))                    *)
(*   structs   len(re.findall(r'(struct|typedef\s+struct)', piece))        *)
(***************************************************************************)
Plain(n, nl) ==
    [chars |-> n, newlines |-> nl, setup |-> FALSE, loop |-> FALSE,
     unsized |-> FALSE, sized |-> <<>>, mallocs |-> 0, frees |-> 0,
     longstr |-> 0, delays |-> <<>>, infinite |-> FALSE, prints |-> 0,
     delayword |-> FALSE, begin |-> FALSE, ifs |-> 0, const |-> FALSE,
     comments |-> 0, functions |-> 0, globals |-> 0, arrays |-> 0,
     structs |-> 0]

CharArray(n, lit) ==
    [Plain(n, 1) EXCEPT !.sized = <<lit>>, !.globals = 1, !.arrays = 1]

DelayCall(n, lit) ==
    [Plain(n, 1) EXCEPT !.delays = <<lit>>, !.delayword = TRUE]

Lex(piece) ==
    CASE piece = "void setup() {}\n" ->
            [Plain(16, 1) EXCEPT !.setup = TRUE, !.functions = 1]
      [] piece = "void loop() {}\n" ->
            [Plain(15, 1) EXCEPT !.loop = TRUE, !.functions = 1]
      [] piece = "Serial.begin(115200);\n" ->
            [Plain(22, 1) EXCEPT !.begin = TRUE]
      [] piece = "const int LED = 2;\n" ->
            [Plain(19, 1) EXCEPT !.const = TRUE]
      [] piece = "char buf[2000];\n" ->
            CharArray(16, Lit(0, <<2, 0, 0, 0>>))
      [] piece = "char buf[1001];\n" ->
            CharArray(16, Lit(0, <<1, 0, 0, 1>>))
      [] piece = "char buf[1000];\n" ->
            CharArray(16, Lit(0, <<1, 0, 0, 0>>))
      \* "char buf[" + "0" * 5000 + "2000];\n"
      [] piece = "char buf[0{5000}2000];\n" ->
            CharArray(5016, Lit(5000, <<2, 0, 0, 0>>))
      [] piece = "char s[];\n" ->
            [Plain(10, 1) EXCEPT !.unsized = TRUE, !.globals = 1]
      [] piece = "delay(15000);\n" ->
            DelayCall(14, Lit(0, <<1, 5, 0, 0, 0>>))
      [] piece = "delay(10000);\n" ->
            DelayCall(14, Lit(0, <<1, 0, 0, 0, 0>>))
      [] piece = "delay(9999);\n" ->
            DelayCall(13, Lit(0, <<9, 9, 9, 9>>))
      [] piece = "delay(1000);\n" ->
            DelayCall(13, Lit(0, <<1, 0, 0, 0>>))
      [] piece = "delay(999);\n" ->
            DelayCall(12, Lit(0, <<9, 9, 9>>))
      \* "delay(" + "0" * 5000 + "15000);\n"
      [] piece = "delay(0{5000}15000);\n" ->
            DelayCall(5014, Lit(5000, <<1, 5, 0, 0, 0>>))
      [] piece = "p = malloc(8);\n" ->
            [Plain(15, 1) EXCEPT !.mallocs = 1]
      [] piece = "free(p);\n" ->
            [Plain(9, 1) EXCEPT !.frees = 1]
      [] piece = "while (1) {}\n" ->
            [Plain(13, 1) EXCEPT !.infinite = TRUE]
      [] piece = "if (x) {}\n" ->
            [Plain(10, 1) EXCEPT !.ifs = 1]
      [] piece = "// note\n" ->
            [Plain(8, 1) EXCEPT !.comments = 1]
      [] piece = "int helper() {}\n" ->
            [Plain(16, 1) EXCEPT !.functions = 1, !.globals = 1]
      [] piece = "struct S {};\n" ->
            [Plain(13, 1) EXCEPT !.structs = 1]
      [] piece = "Serial.println('Temperature: ');\n" ->  \* with double quotes
            [Plain(33, 1) EXCEPT !.longstr = 1, !.prints = 1]
      [] piece = "Serial.print('t');\n" ->                \* with double quotes
            [Plain(19, 1) EXCEPT !.prints = 1]
      [] piece = "int n;\n" ->
            [Plain(7, 1) EXCEPT !.globals = 1]
      \* a comment line of 8 characters whose e carries an acute accent (U+00E9)
      [] piece = "// caf<U+00E9>\n" ->
            [Plain(8, 1) EXCEPT !.comments = 1]
      \* " " * 450000, no line break
      [] piece = " {450000}" -> Plain(450000, 0)
      \* " " * 201 and " " * 501, no line break
      [] piece = " {201}" -> Plain(201, 0)
      [] piece = " {501}" -> Plain(501, 0)
      \* " " * 163841 and " " * 323585: with the 100 kB reserved on esp32dev,
      \* one byte more than 50 % and than 80 % of its 520 kB
      [] piece = " {163841}" -> Plain(163841, 0)
      [] piece = " {323585}" -> Plain(323585, 0)
      \* " " * 163840 and " " * 323584: 50 % and 80 % of the 520 kB to the byte
      [] piece = " {163840}" -> Plain(163840, 0)
      [] piece = " {323584}" -> Plain(323584, 0)
      \* "\n" * 52
      [] piece = "\n{52}" -> Plain(52, 52)
      \* a print of a literal of 10 characters, of one of 9 characters, and of
      \* a literal inside F(), each with double quotes
      [] piece = "Serial.print('0123456789');\n" ->
            [Plain(28, 1) EXCEPT !.longstr = 1, !.prints = 1]
      [] piece = "Serial.print('012345678');\n" ->
            [Plain(27, 1) EXCEPT !.prints = 1]
      [] piece = "Serial.println(F('Temperature: '));\n" ->
            [Plain(36, 1) EXCEPT !.prints = 1]
      [] piece = "while (true) {}\n" ->
            [Plain(16, 1) EXCEPT !.infinite = TRUE]
      [] piece = "delay(100);\n" ->
            DelayCall(12, Lit(0, <<1, 0, 0>>))
      \* runs of spaces and of line breaks around the thresholds of the rules
      [] piece = " {200}" -> Plain(200, 0)
      [] piece = " {490}" -> Plain(490, 0)
      [] piece = " {491}" -> Plain(491, 0)
      [] piece = " {500}" -> Plain(500, 0)
      [] piece = "\n{29}" -> Plain(29, 29)
      [] piece = "\n{30}" -> Plain(30, 30)
      [] piece = "\n{37}" -> Plain(37, 37)
      [] piece = "\n{49}" -> Plain(49, 49)
      [] piece = "\n{50}" -> Plain(50, 50)
      [] piece = "\n" -> Plain(1, 1)
      [] piece = "const int LED = 2;" ->
            [Plain(18, 0) EXCEPT !.const = TRUE]
      [] piece = "void loop() {}" ->
            [Plain(14, 0) EXCEPT !.loop = TRUE, !.functions = 1]

Pieces ==
    {"void setup() {}\n", "void loop() {}\n", "Serial.begin(115200);\n",
     "const int LED = 2;\n", "char buf[2000];\n", "char buf[1001];\n",
     "char buf[1000];\n", "char buf[0{5000}2000];\n", "char s[];\n",
     "delay(15000);\n", "delay(10000);\n", "delay(9999);\n", "delay(1000);\n",
     "delay(999);\n", "delay(0{5000}15000);\n", "p = malloc(8);\n",
     "free(p);\n", "while (1) {}\n", "if (x) {}\n", "// note\n",
     "int helper() {}\n", "struct S {};\n",
     "Serial.println('Temperature: ');\n", "Serial.print('t');\n",
     "int n;\n", "// caf<U+00E9>\n", " {450000}", " {201}", " {501}", "\n",
     " {163841}", " {323585}", " {163840}", " {323584}", "\n{52}",
     "Serial.print('0123456789');\n", "Serial.print('012345678');\n",
     "Serial.println(F('Temperature: '));\n", "while (true) {}\n",
     "delay(100);\n", " {200}", " {490}", " {491}", " {500}",
     "\n{29}", "\n{30}", "\n{37}", "\n{49}", "\n{50}",
     "const int LED = 2;", "void loop() {}"}

\* the scans of every piece, taken once
Scan == [p \in Pieces |-> Lex(p)]

RECURSIVE Count(_, _)
Count(text, field) ==
    IF text = <<>> THEN 0
    ELSE Scan[text[1]][field] + Count(Tail(text), field)

RECURSIVE FindAll(_, _)
FindAll(text, field) ==
    IF text = <<>> THEN <<>>
    ELSE Scan[text[1]][field] \o FindAll(Tail(text), field)

Contains(text, field) == \E i \in 1..Len(text) : Scan[text[i]][field]

(***************************************************************************)
(* BOARD_SPECS and the lookup BOARD_SPECS.get(board, BOARD_SPECS[default]) *)
(***************************************************************************)
BoardIds == {"esp32dev", "esp32s3", "esp32c3"}

BOARD_SPECS ==
    [b \in BoardIds |->
        CASE b = "esp32dev" ->
                [name |-> "ESP32 DevKit V1", total_ram_kb |-> 520,
                 system_reserved_kb |-> 100, is_realtime |-> FALSE,
                 performance_critical |-> FALSE]
          [] b = "esp32s3" ->
                [name |-> "ESP32-S3", total_ram_kb |-> 1507,
                 system_reserved_kb |-> 150, is_realtime |-> FALSE,
                 performance_critical |-> TRUE]
          [] b = "esp32c3" ->
                [name |-> "ESP32-C3", total_ram_kb |-> 400,
                 system_reserved_kb |-> 80, is_realtime |-> TRUE,
                 performance_critical |-> TRUE]]

\* dict.get(key, default): the key's hash is taken first (TypeError for an
\* unhashable key); a key of any other type that is no key of the dict
\* gives the default.
BoardGetOtherDefault(b) ==
    IF IsStr(b) /\ b.text \in BoardIds
    THEN BOARD_SPECS[b.text] ELSE BOARD_SPECS["esp32s3"]

BoardGet(b) ==
    IF IsStr(b) /\ b.text \in BoardIds
    THEN BOARD_SPECS[b.text] ELSE BOARD_SPECS["esp32dev"]

(***************************************************************************)
(* CodeIssue.  A message or suggestion built with an f-string is the       *)
(* format's text together with the numbers substituted into it.            *)
(***************************************************************************)
Severities == {"critical", "high", "medium", "low"}              \* IssueSeverity
IssueTypes == {"memory", "performance", "correctness", "safety", "style"}  \* IssueType

Fmt(t, a, b) == [text |-> t, a |-> a, b |-> b]

CodeIssue(type, severity, message, suggestion) ==
    [type |-> type, severity |-> severity, message |-> message,
     suggestion |-> suggestion, line_number |-> "None"]

\* What a rule set leaves behind: the issue list after its appends, and the
\* exception that ended it ("" when it returned).
Out(iss, exc) == [issues |-> iss, exc |-> exc]

(***************************************************************************)
(* _check_correctness                                                      *)
(***************************************************************************)
MissingSetup ==
    CodeIssue("correctness", "critical",
              Fmt("Missing void setup() function - code won't compile", 0, 0),
              Fmt("Add: void setup() { /* initialization code */ }", 0, 0))

\* the missing loop() rated high
MissingLoopHigh ==
    CodeIssue("correctness", "high",
              Fmt("Missing void loop() function - code won't compile", 0, 0),
              Fmt("Add: void loop() { /* main program logic */ }", 0, 0))

MissingLoop ==
    CodeIssue("correctness", "critical",
              Fmt("Missing void loop() function - code won't compile", 0, 0),
              Fmt("Add: void loop() { /* main program logic */ }", 0, 0))

UnboundedArray ==
    CodeIssue("correctness", "high",
              Fmt("Unbounded array declaration without size", 0, 0),
              Fmt("Specify array size: char buffer[256];", 0, 0))

\* the test for setup() without its `not`
CheckCorrectnessInverted(self_code, iss) ==
    IF self_code.ty \in {"NoneType", "int"} THEN Out(iss, "TypeError")
    ELSE
      LET t == self_code.text
          i1 == IF Contains(t, "setup") THEN Append(iss, MissingSetup) ELSE iss
          i2 == IF ~Contains(t, "loop") THEN Append(i1, MissingLoop) ELSE i1
      IN  IF ~IsStr(self_code) THEN Out(i2, "TypeError")
          ELSE IF Contains(t, "unsized") THEN Out(Append(i2, UnboundedArray), "")
          ELSE Out(i2, "")

\* one issue for each match of re.findall in the place of the one re.search
CheckCorrectnessPerArray(self_code, iss) ==
    IF self_code.ty \in {"NoneType", "int"} THEN Out(iss, "TypeError")
    ELSE
      LET t == self_code.text
          i1 == IF ~Contains(t, "setup") THEN Append(iss, MissingSetup) ELSE iss
          i2 == IF ~Contains(t, "loop") THEN Append(i1, MissingLoop) ELSE i1
          n == Len(SelectSeq(t, LAMBDA p : Scan[p].unsized))
      IN  IF ~IsStr(self_code) THEN Out(i2, "TypeError")
          ELSE Out(i2 \o [i \in 1..n |-> UnboundedArray], "")

\* `"..." not in self.code` raises TypeError for None and for an int; for a
\* list it is True (no element equals the string), and the re.search that
\* follows raises TypeError.
_check_correctness(self_code, iss) ==
    IF self_code.ty \in {"NoneType", "int"} THEN Out(iss, "TypeError")
    ELSE
      LET t == self_code.text
          i1 == IF ~Contains(t, "setup") THEN Append(iss, MissingSetup) ELSE iss
          i2 == IF ~Contains(t, "loop") THEN Append(i1, MissingLoop) ELSE i1
      IN  IF ~IsStr(self_code) THEN Out(i2, "TypeError")
          ELSE IF Contains(t, "unsized") THEN Out(Append(i2, UnboundedArray), "")
          ELSE Out(i2, "")

(***************************************************************************)
(* _check_memory_safety                                                    *)
(***************************************************************************)
LargeArray(size, board_info) ==
    CodeIssue("memory",
              IF board_info.total_ram_kb < 500 THEN "critical" ELSE "high",
              Fmt("Large static array allocation ({size} bytes) detected", size, 0),
              Fmt("Use dynamic allocation or reduce size. Board has only {total_ram_kb}KB RAM",
                  board_info.total_ram_kb, 0))

MemoryLeak(malloc_count, free_count) ==
    CodeIssue("memory", "high",
              Fmt("Potential memory leak: {malloc_count} malloc calls but only {free_count} free calls",
                  malloc_count, free_count),
              Fmt("Ensure every malloc() has a corresponding free()", 0, 0))

NoFlashMacro(string_literals) ==
    CodeIssue("memory", "medium",
              Fmt("Found {string_literals} string literals without F() macro",
                  string_literals, 0),
              Fmt("Use F('text') to store strings in flash: Serial.println(F('message'));", 0, 0))

\* `size > 1000` written as `size >= 1000`
RECURSIVE LargeArrayLoopFrom1000(_, _, _, _)
LargeArrayLoopFrom1000(large_arrays, iss, board_info, limit) ==
    IF large_arrays = <<>> THEN Out(iss, "")
    ELSE IF IntRaises(large_arrays[1], limit) THEN Out(iss, "ValueError")
    ELSE LET size == IntOf(large_arrays[1])
         IN  LargeArrayLoopFrom1000(Tail(large_arrays),
                                    IF size >= 1000
                                    THEN Append(iss, LargeArray(size, board_info))
                                    ELSE iss,
                                    board_info, limit)

\* for size_str in large_arrays: size = int(size_str); if size > 1000: append
RECURSIVE LargeArrayLoop(_, _, _, _)
LargeArrayLoop(large_arrays, iss, board_info, limit) ==
    IF large_arrays = <<>> THEN Out(iss, "")
    ELSE IF IntRaises(large_arrays[1], limit) THEN Out(iss, "ValueError")
    ELSE LET size == IntOf(large_arrays[1])
         IN  LargeArrayLoop(Tail(large_arrays),
                            IF size > 1000
                            THEN Append(iss, LargeArray(size, board_info))
                            ELSE iss,
                            board_info, limit)

\* `string_literals > 3` written as `string_literals >= 3`
CheckMemorySafetyFrom3(self_code, iss, board_info, limit) ==
    IF ~IsStr(self_code) THEN Out(iss, "TypeError")
    ELSE
      LET t == self_code.text
          loop == LargeArrayLoop(FindAll(t, "sized"), iss, board_info, limit)
          malloc_count == Count(t, "mallocs")
          free_count == Count(t, "frees")
          i1 == IF malloc_count > 0 /\ malloc_count > free_count
                THEN Append(loop.issues, MemoryLeak(malloc_count, free_count))
                ELSE loop.issues
          string_literals == Count(t, "longstr")
          i2 == IF string_literals >= 3
                THEN Append(i1, NoFlashMacro(string_literals)) ELSE i1
      IN  IF loop.exc # "" THEN loop ELSE Out(i2, "")

_check_memory_safety(self_code, iss, board_info, limit) ==
    IF ~IsStr(self_code) THEN Out(iss, "TypeError")
    ELSE
      LET t == self_code.text
          loop == LargeArrayLoop(FindAll(t, "sized"), iss, board_info, limit)
          malloc_count == Count(t, "mallocs")
          free_count == Count(t, "frees")
          i1 == IF malloc_count > 0 /\ malloc_count > free_count
                THEN Append(loop.issues, MemoryLeak(malloc_count, free_count))
                ELSE loop.issues
          string_literals == Count(t, "longstr")
          i2 == IF string_literals > 3
                THEN Append(i1, NoFlashMacro(string_literals)) ELSE i1
      IN  IF loop.exc # "" THEN loop ELSE Out(i2, "")

(***************************************************************************)
(* _check_performance                                                      *)
(***************************************************************************)
VeryLongDelay(delay_ms, board_info) ==
    CodeIssue("performance",
              IF board_info.is_realtime THEN "critical" ELSE "high",
              Fmt("Very long delay ({delay_ms}ms) detected - blocks entire system", delay_ms, 0),
              Fmt("Use non-blocking timing: millis() or FreeRTOS tasks", 0, 0))

\* the two severities of the shorter delay the wrong way round
LongDelaySwapped(delay_ms, board_info) ==
    CodeIssue("performance",
              IF ~board_info.is_realtime THEN "high" ELSE "medium",
              Fmt("Long delay ({delay_ms}ms) may impact responsiveness", delay_ms, 0),
              Fmt("Consider reducing delay or using non-blocking code", 0, 0))

LongDelay(delay_ms, board_info) ==
    CodeIssue("performance",
              IF ~board_info.is_realtime THEN "medium" ELSE "high",
              Fmt("Long delay ({delay_ms}ms) may impact responsiveness", delay_ms, 0),
              Fmt("Consider reducing delay or using non-blocking code", 0, 0))

InfiniteLoop ==
    CodeIssue("performance", "high",
              Fmt("Infinite loop with while(1) or while(true) detected", 0, 0),
              Fmt("Use the loop() function instead for continuous execution", 0, 0))

SerialSpam ==
    CodeIssue("performance", "medium",
              Fmt("Multiple Serial.print calls without delays may overwhelm serial buffer", 0, 0),
              Fmt("Add delay(100) or reduce print frequency", 0, 0))

\* `delay_ms >= 10000` written as `delay_ms > 10000`
RECURSIVE LongDelayLoopAbove10000(_, _, _, _)
LongDelayLoopAbove10000(long_delays, iss, board_info, limit) ==
    IF long_delays = <<>> THEN Out(iss, "")
    ELSE IF IntRaises(long_delays[1], limit) THEN Out(iss, "ValueError")
    ELSE LET delay_ms == IntOf(long_delays[1])
         IN  LongDelayLoopAbove10000(Tail(long_delays),
                                     IF delay_ms > 10000
                                     THEN Append(iss, VeryLongDelay(delay_ms, board_info))
                                     ELSE IF delay_ms >= 1000
                                     THEN Append(iss, LongDelay(delay_ms, board_info))
                                     ELSE iss,
                                     board_info, limit)

\* for delay_str in long_delays: delay_ms = int(delay_str); ...
RECURSIVE LongDelayLoop(_, _, _, _)
LongDelayLoop(long_delays, iss, board_info, limit) ==
    IF long_delays = <<>> THEN Out(iss, "")
    ELSE IF IntRaises(long_delays[1], limit) THEN Out(iss, "ValueError")
    ELSE LET delay_ms == IntOf(long_delays[1])
         IN  LongDelayLoop(Tail(long_delays),
                           IF delay_ms >= 10000
                           THEN Append(iss, VeryLongDelay(delay_ms, board_info))
                           ELSE IF delay_ms >= 1000
                           THEN Append(iss, LongDelay(delay_ms, board_info))
                           ELSE iss,
                           board_info, limit)

\* `serial_calls_in_loop > 5` written as `serial_calls_in_loop >= 5`
CheckPerformanceFrom5(self_code, iss, board_info, limit) ==
    IF ~IsStr(self_code) THEN Out(iss, "TypeError")
    ELSE
      LET t == self_code.text
          loop == LongDelayLoop(FindAll(t, "delays"), iss, board_info, limit)
          i1 == IF Contains(t, "infinite")
                THEN Append(loop.issues, InfiniteLoop) ELSE loop.issues
          serial_calls_in_loop == Count(t, "prints")
          i2 == IF serial_calls_in_loop >= 5 /\ ~Contains(t, "delayword")
                THEN Append(i1, SerialSpam) ELSE i1
      IN  IF loop.exc # "" THEN loop ELSE Out(i2, "")

_check_performance(self_code, iss, board_info, limit) ==
    IF ~IsStr(self_code) THEN Out(iss, "TypeError")
    ELSE
      LET t == self_code.text
          loop == LongDelayLoop(FindAll(t, "delays"), iss, board_info, limit)
          i1 == IF Contains(t, "infinite")
                THEN Append(loop.issues, InfiniteLoop) ELSE loop.issues
          serial_calls_in_loop == Count(t, "prints")
          i2 == IF serial_calls_in_loop > 5 /\ ~Contains(t, "delayword")
                THEN Append(i1, SerialSpam) ELSE i1
      IN  IF loop.exc # "" THEN loop ELSE Out(i2, "")

(***************************************************************************)
(* _check_safety and _check_style                                          *)
(***************************************************************************)
MissingSerialBegin ==
    CodeIssue("safety", "low",
              Fmt("Missing Serial.begin() - debugging will be difficult", 0, 0),
              Fmt("Add Serial.begin(115200); in setup()", 0, 0))

LimitedErrorChecking ==
    CodeIssue("safety", "medium",
              Fmt("Limited error checking - code may fail silently", 0, 0),
              Fmt("Add validation: if (sensor.begin()) { /* handle error */ }", 0, 0))

NoConst ==
    CodeIssue("style", "low",
              Fmt("No const declarations found", 0, 0),
              Fmt("Use const for constants: const int LED_PIN = 2;", 0, 0))

LowCommentDensity ==
    CodeIssue("style", "low",
              Fmt("Low comment density (<5%)", 0, 0),
              Fmt("Add comments to explain complex logic", 0, 0))

Monolithic ==
    CodeIssue("style", "medium",
              Fmt("All code in setup/loop - no helper functions", 0, 0),
              Fmt("Break complex logic into reusable functions", 0, 0))

\* len(self.code)
StrLen(t) == Count(t, "chars")

\* len(self.code.split('\n'))
LineCount(t) == Count(t, "newlines") + 1

\* `len(self.code) > 500` written as `len(self.code) >= 500`
CheckSafetyFrom500(self_code, iss) ==
    IF ~IsStr(self_code) THEN Out(iss, "TypeError")
    ELSE
      LET t == self_code.text
          i1 == IF ~Contains(t, "begin") THEN Append(iss, MissingSerialBegin) ELSE iss
          if_count == Count(t, "ifs")
          i2 == IF if_count < 2 /\ StrLen(t) >= 500
                THEN Append(i1, LimitedErrorChecking) ELSE i1
      IN  Out(i2, "")

_check_safety(self_code, iss) ==
    IF ~IsStr(self_code) THEN Out(iss, "TypeError")
    ELSE
      LET t == self_code.text
          i1 == IF ~Contains(t, "begin") THEN Append(iss, MissingSerialBegin) ELSE iss
          if_count == Count(t, "ifs")
          i2 == IF if_count < 2 /\ StrLen(t) > 500
                THEN Append(i1, LimitedErrorChecking) ELSE i1
      IN  Out(i2, "")

\* `comment_ratio < 0.05` written as `comment_ratio <= 0.05`
CheckStyleDensityAtMost(self_code, iss) ==
    IF ~IsStr(self_code) THEN Out(iss, "TypeError")
    ELSE
      LET t == self_code.text
          i1 == IF ~Contains(t, "const") /\ StrLen(t) > 200
                THEN Append(iss, NoConst) ELSE iss
          lines == LineCount(t)
          denom == IF lines > 1 THEN lines ELSE 1
          i2 == IF Count(t, "comments") * 100 <= 5 * denom /\ lines > 30
                THEN Append(i1, LowCommentDensity) ELSE i1
          i3 == IF Count(t, "functions") <= 2 /\ lines > 50
                THEN Append(i2, Monolithic) ELSE i2
      IN  Out(i3, "")

\* the density rule without its `len(lines) > 30`
CheckStyleAnyLength(self_code, iss) ==
    IF ~IsStr(self_code) THEN Out(iss, "TypeError")
    ELSE
      LET t == self_code.text
          i1 == IF ~Contains(t, "const") /\ StrLen(t) > 200
                THEN Append(iss, NoConst) ELSE iss
          lines == LineCount(t)
          denom == IF lines > 1 THEN lines ELSE 1
          i2 == IF Count(t, "comments") * 100 < 5 * denom
                THEN Append(i1, LowCommentDensity) ELSE i1
          i3 == IF Count(t, "functions") <= 2 /\ lines > 50
                THEN Append(i2, Monolithic) ELSE i2
      IN  Out(i3, "")

\* comment_ratio < 0.05 with comment_ratio = comments / max(1, len(lines)):
\* comments * 100 < 5 * max(1, len(lines)).
_check_style(self_code, iss) ==
    IF ~IsStr(self_code) THEN Out(iss, "TypeError")
    ELSE
      LET t == self_code.text
          i1 == IF ~Contains(t, "const") /\ StrLen(t) > 200
                THEN Append(iss, NoConst) ELSE iss
          lines == LineCount(t)
          denom == IF lines > 1 THEN lines ELSE 1
          i2 == IF Count(t, "comments") * 100 < 5 * denom /\ lines > 30
                THEN Append(i1, LowCommentDensity) ELSE i1
          i3 == IF Count(t, "functions") <= 2 /\ lines > 50
                THEN Append(i2, Monolithic) ELSE i2
      IN  Out(i3, "")

(***************************************************************************)
(* _estimate_memory.  Quantities in bytes; the rounded results in          *)
(* hundredths of a kB (round(x, 2)) and tenths of a percent (round(x, 1)). *)
(***************************************************************************)
\* round(n / d, ...) to the nearest integer unit, ties to even
Round(n, d) ==
    LET q == n \div d
        r == n % d
    IN  IF 2 * r < d THEN q
        ELSE IF 2 * r > d THEN q + 1
        ELSE IF q % 2 = 0 THEN q ELSE q + 1

\* free_kb = max(0, total_ram - used_kb)
\* usage_percent = min(100, (used_kb / total_ram) * 100)
\* and the safety margin taken from the unrounded usage_percent
MemoryMarginsUnclamped(used_bytes, total_bytes) ==
    [estimated_free_ram_kb |-> Round((total_bytes - used_bytes) * 100, 1024),
     usage_percent |-> Round(used_bytes * 1000, total_bytes),
     safety_margin |->
        IF used_bytes * 100 > 80 * total_bytes THEN "critical"
        ELSE IF used_bytes * 100 > 50 * total_bytes THEN "warning"
        ELSE "good"]

MemoryMargins(used_bytes, total_bytes) ==
    LET free_bytes == IF total_bytes - used_bytes > 0
                      THEN total_bytes - used_bytes ELSE 0
        over == used_bytes * 100 > 100 * total_bytes
    IN  [estimated_free_ram_kb |-> Round(free_bytes * 100, 1024),
         usage_percent |->
            IF over THEN 1000 ELSE Round(used_bytes * 1000, total_bytes),
         safety_margin |->
            IF used_bytes * 100 > 80 * total_bytes THEN "critical"
            ELSE IF used_bytes * 100 > 50 * total_bytes THEN "warning"
            ELSE "good"]

_estimate_memory(self_code, board_info) ==
    LET t == self_code.text
        total_bytes == board_info.total_ram_kb * 1024
        system_reserve == board_info.system_reserved_kb * 1024
        code_size == StrLen(t)
        global_vars == Count(t, "globals")
        arrays == Count(t, "arrays")
        structs == Count(t, "structs")
        estimated_global == global_vars * 4 + arrays * 20 + structs * 10
        used_bytes == code_size + estimated_global + system_reserve
        m == MemoryMargins(used_bytes, total_bytes)
    IN  [estimated_code_size_kb |-> Round(code_size * 100, 1024),
         estimated_global_vars_kb |-> Round(estimated_global * 100, 1024),
         estimated_free_ram_kb |-> m.estimated_free_ram_kb,
         usage_percent |-> m.usage_percent,
         safety_margin |-> m.safety_margin]

(***************************************************************************)
(* _calculate_weighted_score.  The multipliers are kept in tenths:         *)
(* int(base_penalty * multiplier) = (base_penalty * tenths) \div 10.       *)
(***************************************************************************)
severity_weights(severity) ==
    CASE severity = "critical" -> 20
      [] severity = "high" -> 12
      [] severity = "medium" -> 6
      [] severity = "low" -> 3
      [] OTHER -> 5

\* style weighted 0.3 in the place of 0.5
TypeMultipliersStyleThird(type, board_info) ==
    CASE type = "correctness" -> 10
      [] type = "memory" -> IF board_info.total_ram_kb < 500 THEN 15 ELSE 10
      [] type = "performance" -> IF board_info.is_realtime THEN 13 ELSE 8
      [] type = "safety" -> 10
      [] type = "style" -> 3
      [] OTHER -> 10

type_multipliers(type, board_info) ==
    CASE type = "correctness" -> 10
      [] type = "memory" -> IF board_info.total_ram_kb < 500 THEN 15 ELSE 10
      [] type = "performance" -> IF board_info.is_realtime THEN 13 ELSE 8
      [] type = "safety" -> 10
      [] type = "style" -> 5
      [] OTHER -> 10

\* round(base_penalty * multiplier) in the place of int(...)
PenaltyRounded(issue, board_info) ==
    (severity_weights(issue.severity) * type_multipliers(issue.type, board_info) + 5) \div 10

Penalty(issue, board_info) ==
    (severity_weights(issue.severity) * type_multipliers(issue.type, board_info)) \div 10

RECURSIVE TotalPenalty(_, _)
TotalPenalty(iss, board_info) ==
    IF iss = <<>> THEN 0
    ELSE Penalty(iss[1], board_info) + TotalPenalty(Tail(iss), board_info)

Min(a, b) == IF a < b THEN a ELSE b
Max(a, b) == IF a > b THEN a ELSE b

WeightedScoreNoFloor(iss, board_info) ==
    Min(100, 100 - TotalPenalty(iss, board_info))

\* score = 100 set inside the loop: only the last issue counts
WeightedScoreLastOnly(iss, board_info) ==
    Max(0, Min(100, 100 - (IF iss = <<>> THEN 0
                           ELSE Penalty(iss[Len(iss)], board_info))))

_calculate_weighted_score(iss, board_info) ==
    Max(0, Min(100, 100 - TotalPenalty(iss, board_info)))

(***************************************************************************)
(* Helpers of the report: to_dict, the severity split, _group_by_type,     *)
(* _get_overall_severity, _generate_summary.                               *)
(***************************************************************************)
\* CodeIssue.to_dict: the five fields, under the same names
to_dict(issue) ==
    [type |-> issue.type, severity |-> issue.severity, message |-> issue.message,
     suggestion |-> issue.suggestion, line_number |-> issue.line_number]

RECURSIVE Dicts(_)
Dicts(iss) ==
    IF iss = <<>> THEN <<>> ELSE <<to_dict(iss[1])>> \o Dicts(Tail(iss))

\* [i for i in self.issues if i.severity == severity]
BySeverityDropsLow(iss, severity) ==
    IF severity = "low" THEN <<>>
    ELSE SelectSeq(iss, LAMBDA i : i.severity = severity)

BySeverity(iss, severity) == SelectSeq(iss, LAMBDA i : i.severity = severity)

_group_by_type(iss) ==
    [t \in IssueTypes |->
        Dicts(SelectSeq(iss, LAMBDA i : i.type = t))]

\* `high > 2` written as `high >= 2`
OverallSeverityHighAtTwo(iss) ==
    LET critical == Len(BySeverity(iss, "critical"))
        high == Len(BySeverity(iss, "high"))
    IN  IF critical > 0 THEN "critical"
        ELSE IF high >= 2 THEN "high"
        ELSE IF high > 0 \/ Len(iss) > 5 THEN "medium"
        ELSE IF Len(iss) > 0 THEN "low"
        ELSE "excellent"

_get_overall_severity(iss) ==
    LET critical == Len(BySeverity(iss, "critical"))
        high == Len(BySeverity(iss, "high"))
    IN  IF critical > 0 THEN "critical"
        ELSE IF high > 2 THEN "high"
        ELSE IF high > 0 \/ Len(iss) > 5 THEN "medium"
        ELSE IF Len(iss) > 0 THEN "low"
        ELSE "excellent"

\* `score >= 50` written as `score > 50`
SummaryAcceptableAbove50(score, board_info, iss) ==
    LET quality == IF score >= 90 THEN "excellent"
                   ELSE IF score >= 75 THEN "good"
                   ELSE IF score > 50 THEN "acceptable"
                   ELSE "poor"
        action == IF score >= 90 THEN "Ready for production use"
                  ELSE IF score >= 75 THEN "Minor improvements recommended"
                  ELSE IF score > 50 THEN "Several issues should be addressed"
                  ELSE "Critical issues must be fixed before use"
        critical == Len(BySeverity(iss, "critical"))
        memory_issues == SelectSeq(iss, LAMBDA i : i.type = "memory")
        perf_issues == SelectSeq(iss, LAMBDA i : i.type = "performance")
        highlights ==
            (IF critical > 0 THEN <<Fmt("{n} critical issue(s)", critical, 0)>> ELSE <<>>)
            \o (IF memory_issues # <<>> THEN <<Fmt("memory concerns", 0, 0)>> ELSE <<>>)
            \o (IF perf_issues # <<>> THEN <<Fmt("performance bottlenecks", 0, 0)>> ELSE <<>>)
    IN  [quality |-> quality, score |-> score,
         highlights |-> IF highlights # <<>> THEN highlights
                        ELSE <<Fmt("no major issues", 0, 0)>>,
         action |-> action]

\* f"Code quality is {quality} ({score}/100) with {highlight_str}.
\*   {action.capitalize()}."
_generate_summary(score, board_info, iss) ==
    LET quality == IF score >= 90 THEN "excellent"
                   ELSE IF score >= 75 THEN "good"
                   ELSE IF score >= 50 THEN "acceptable"
                   ELSE "poor"
        action == IF score >= 90 THEN "Ready for production use"
                  ELSE IF score >= 75 THEN "Minor improvements recommended"
                  ELSE IF score >= 50 THEN "Several issues should be addressed"
                  ELSE "Critical issues must be fixed before use"
        critical == Len(BySeverity(iss, "critical"))
        memory_issues == SelectSeq(iss, LAMBDA i : i.type = "memory")
        perf_issues == SelectSeq(iss, LAMBDA i : i.type = "performance")
        highlights ==
            (IF critical > 0 THEN <<Fmt("{n} critical issue(s)", critical, 0)>> ELSE <<>>)
            \o (IF memory_issues # <<>> THEN <<Fmt("memory concerns", 0, 0)>> ELSE <<>>)
            \o (IF perf_issues # <<>> THEN <<Fmt("performance bottlenecks", 0, 0)>> ELSE <<>>)
    IN  [quality |-> quality, score |-> score,
         highlights |-> IF highlights # <<>> THEN highlights
                        ELSE <<Fmt("no major issues", 0, 0)>>,
         action |-> action]

(***************************************************************************)
(* analyze, statement by statement.  `m` is the analyzer instance (self),  *)
(* `f` the activation of one call: its arguments, its locals, the line it  *)
(* is at, and its outcome once it has ended.                               *)
(***************************************************************************)
\* CodeQualityAnalyzer.__init__
NewAnalyzer ==
    [code |-> Str(<<>>), board |-> Str("esp32dev"), issues |-> <<>>,
     quality_score |-> 100]

NoOutcome == [kind |-> "none"]
Raised(exc) == [kind |-> "raise", exc |-> exc]
Returned(report) == [kind |-> "return", report |-> report]

NewFrame(c, b) ==
    [pc |-> "L104", code |-> c, board |-> b,
     board_info |-> BOARD_SPECS["esp32dev"],
     memory_analysis |-> <<>>, final_score |-> 0, summary |-> <<>>,
     critical_issues |-> <<>>, high_issues |-> <<>>,
     medium_issues |-> <<>>, low_issues |-> <<>>,
     ret |-> NoOutcome]

IdleFrame == [NewFrame(Str(<<>>), Str("esp32dev")) EXCEPT !.pc = "idle"]

To(m, f) == [m |-> m, f |-> f]
Raise(m, f, exc) == To(m, [f EXCEPT !.pc = "done", !.ret = Raised(exc)])

\* One rule set: it appends to self.issues, and either returns or raises.
AfterCheck(m, f, out, next) ==
    LET m2 == [m EXCEPT !.issues = out.issues]
    IN  IF out.exc # "" THEN Raise(m2, f, out.exc)
        ELSE To(m2, [f EXCEPT !.pc = next])

\* the dict of lines 134-165
Report(m, f) ==
    [quality_score |-> f.final_score,
     code_lines |-> LineCount(f.code.text),
     code_size_kb |-> Round(StrLen(f.code.text) * 100, 1024),
     issues |-> Dicts(m.issues),
     issues_by_severity |->
        [critical |-> Dicts(f.critical_issues), high |-> Dicts(f.high_issues),
         medium |-> Dicts(f.medium_issues), low |-> Dicts(f.low_issues)],
     issues_by_type |-> _group_by_type(m.issues),
     issues_count |-> Len(m.issues),
     critical_count |-> Len(f.critical_issues),
     high_count |-> Len(f.high_issues),
     medium_count |-> Len(f.medium_issues),
     low_count |-> Len(f.low_issues),
     estimated_ram_usage_percent |-> f.memory_analysis.usage_percent,
     estimated_free_ram_kb |-> f.memory_analysis.estimated_free_ram_kb,
     memory_status |-> f.memory_analysis.safety_margin,
     severity |-> _get_overall_severity(m.issues),
     summary |-> f.summary,
     board |-> f.board_info.name]

\* self.code = code  (line 104)
\* as `self.code = self.code or code`: a text once set stays
SetCodeOnce(m, f) == IF m.code = Str(<<>>) THEN [m EXCEPT !.code = f.code] ELSE m

SetCode(m, f) == [m EXCEPT !.code = f.code]

\* self.issues = []  (line 106)
ResetIssuesKeeps(m) == m

ResetIssues(m) == [m EXCEPT !.issues = <<>>]

Step(m, f, limit) ==
    CASE f.pc = "L104" -> To(SetCode(m, f), [f EXCEPT !.pc = "L105"])
      [] f.pc = "L105" -> To([m EXCEPT !.board = f.board], [f EXCEPT !.pc = "L106"])
      [] f.pc = "L106" -> To(ResetIssues(m), [f EXCEPT !.pc = "L107"])
      [] f.pc = "L107" -> To([m EXCEPT !.quality_score = 100], [f EXCEPT !.pc = "L110"])
      [] f.pc = "L110" ->
            IF ~Hashable(f.board) THEN Raise(m, f, "TypeError")
            ELSE To(m, [f EXCEPT !.board_info = BoardGet(f.board), !.pc = "L113"])
      [] f.pc = "L113" ->
            AfterCheck(m, f, _check_correctness(m.code, m.issues), "L114")
      [] f.pc = "L114" ->
            AfterCheck(m, f, _check_memory_safety(m.code, m.issues, f.board_info, limit), "L115")
      [] f.pc = "L115" ->
            AfterCheck(m, f, _check_performance(m.code, m.issues, f.board_info, limit), "L116")
      [] f.pc = "L116" ->
            AfterCheck(m, f, _check_safety(m.code, m.issues), "L117")
      [] f.pc = "L117" ->
            AfterCheck(m, f, _check_style(m.code, m.issues), "L120")
      [] f.pc = "L120" ->
            IF ~IsStr(m.code) THEN Raise(m, f, "TypeError")
            ELSE To(m, [f EXCEPT !.memory_analysis = _estimate_memory(m.code, f.board_info),
                                 !.pc = "L123"])
      [] f.pc = "L123" ->
            To(m, [f EXCEPT !.final_score = _calculate_weighted_score(m.issues, f.board_info),
                            !.pc = "L126"])
      [] f.pc = "L126" ->
            To(m, [f EXCEPT !.summary = _generate_summary(f.final_score, f.board_info, m.issues),
                            !.pc = "L129"])
      [] f.pc = "L129" ->
            To(m, [f EXCEPT !.critical_issues = BySeverity(m.issues, "critical"), !.pc = "L130"])
      [] f.pc = "L130" ->
            To(m, [f EXCEPT !.high_issues = BySeverity(m.issues, "high"), !.pc = "L131"])
      [] f.pc = "L131" ->
            To(m, [f EXCEPT !.medium_issues = BySeverity(m.issues, "medium"), !.pc = "L132"])
      [] f.pc = "L132" ->
            To(m, [f EXCEPT !.low_issues = BySeverity(m.issues, "low"), !.pc = "L134"])
      [] f.pc = "L134" ->
            IF ~IsStr(f.code) THEN Raise(m, f, "TypeError")
            ELSE To(m, [f EXCEPT !.ret = Returned(Report(m, f)), !.pc = "done"])

\* A whole call run without interruption: the state of the instance it
\* leaves and its outcome.
RECURSIVE Run(_, _, _)
Run(m, f, limit) ==
    IF f.pc = "done" THEN [m |-> m, ret |-> f.ret]
    ELSE LET n == Step(m, f, limit) IN Run(n.m, n.f, limit)

analyze(m, c, b, limit) == Run(m, NewFrame(c, b), limit)

(***************************************************************************)
(* The response cache (src/utils/response_cache.py).  self.cache is a dict *)
(* from key to (value, timestamp); it is kept as the sequence of its       *)
(* entries in the order the dict iterates them (insertion order).  Time is *)
(* the value of `clock`, counted in minutes, so that timedelta(minutes=n)  *)
(* is n.  Two operations between which the clock did not advance read the  *)
(* same time.                                                              *)
(***************************************************************************)
Absent == "<None>"      \* None, as a cached value or as a request's context

\* ResponseCache(ttl_minutes, max_size)
NewResponseCache(ttl_minutes, max_size) ==
    [cache |-> <<>>, ttl |-> ttl_minutes, max_size |-> max_size,
     hits |-> 0, misses |-> 0]

\* self.cache.keys()
Keys(cache) == {cache[i].key : i \in DOMAIN cache}

\* self.cache[key]
Entry(cache, key) == cache[CHOOSE i \in DOMAIN cache : cache[i].key = key]

\* del self.cache[key]
Del(cache, key) == SelectSeq(cache, LAMBDA e : e.key # key)

\* self.cache[key] = (value, now): a key the dict holds keeps its place
Put(cache, key, value, now) ==
    LET e == [key |-> key, value |-> value, timestamp |-> now]
    IN  IF key \in Keys(cache)
        THEN [i \in DOMAIN cache |-> IF cache[i].key = key THEN e ELSE cache[i]]
        ELSE Append(cache, e)

\* min(self.cache.keys(), key=lambda k: self.cache[k][1]): the first of the
\* keys with the smallest timestamp
OldestKey(cache) ==
    cache[CHOOSE i \in DOMAIN cache :
            \A j \in DOMAIN cache :
                \/ cache[i].timestamp < cache[j].timestamp
                \/ cache[i].timestamp = cache[j].timestamp /\ i <= j].key

\* ResponseCache.get(key) at time now: the instance after the call and the
\* value returned
get(self, key, now) ==
    IF key \in Keys(self.cache)
    THEN IF now - Entry(self.cache, key).timestamp < self.ttl
         THEN [self |-> [self EXCEPT !.hits = @ + 1],
               value |-> Entry(self.cache, key).value]
         ELSE [self |-> [self EXCEPT !.cache = Del(@, key), !.misses = @ + 1],
               value |-> Absent]
    ELSE [self |-> [self EXCEPT !.misses = @ + 1], value |-> Absent]

\* ResponseCache.set(key, value) at time now
set(self, key, value, now) ==
    LET room == IF Len(self.cache) >= self.max_size
                THEN Del(self.cache, OldestKey(self.cache))
                ELSE self.cache
    IN  [self EXCEPT !.cache = Put(room, key, value, now)]

\* ResponseCache.clear()
clear(self) == [self EXCEPT !.cache = <<>>, !.hits = 0, !.misses = 0]

\* ResponseCache.cleanup_expired() at time now
cleanup_expired(self, now) ==
    [self EXCEPT !.cache = SelectSeq(@, LAMBDA e : ~(now - e.timestamp >= self.ttl))]

\* history of uses: a successful get or a set makes the key the most
\* recently used one; a key the cache no longer holds is forgotten
Touch(order, key) == Append(SelectSeq(order, LAMBDA k : k # key), key)

Forget(order, cache) == SelectSeq(order, LAMBDA k : k \in Keys(cache))

NoEviction == [key |-> Absent, least_recent |-> Absent]

(***************************************************************************)
(* The strings of a generate-code request.  StrFacts gives for a string    *)
(* what the service computes from it:                                      *)
(*   chars     len(s)                                                      *)
(*   stripped  len(s.strip())                                              *)
(*   lower     s.strip().lower()                                           *)
(*   pattern   the index of the first of suspicious_patterns found in     *)
(*             s.strip().lower(), 0 when there is none                     *)
(*   stem      the name make_unique_filename derives from s, without the   *)
(*             time stamp and the extension                                *)
(* "a{1000}" stands for 1000 letters a, " {5}" for 5 spaces.               *)
(***************************************************************************)
suspicious_patterns == <<"<script>", "javascript:", "eval(", "exec(">>

Facts(chars, stripped, lower, pattern, stem) ==
    [chars |-> chars, stripped |-> stripped, lower |-> lower,
     pattern |-> pattern, stem |-> stem]

StrFacts(s) ==
    CASE s = "" -> Facts(0, 0, "", 0, "generated")
      [] s = "   " -> Facts(3, 0, "", 0, "generated")
      [] s = "abc" -> Facts(3, 3, "abc", 0, "abc")
      [] s = "  abc   " -> Facts(8, 3, "abc", 0, "abc")
      [] s = "blin" -> Facts(4, 4, "blin", 0, "blin")
      [] s = "blink" -> Facts(5, 5, "blink", 0, "blink")
      [] s = "blink LED on GPIO 2" ->
            Facts(19, 19, "blink led on gpio 2", 0, "blink_led_on_gpio_2")
      [] s = " Blink LED on GPIO 2 " ->
            Facts(21, 19, "blink led on gpio 2", 0, "blink_led_on_gpio_2")
      [] s = "a{1000}" -> Facts(1000, 1000, "a{1000}", 0, "a{35}")
      [] s = "a{1001}" -> Facts(1001, 1001, "a{1001}", 0, "a{35}")
      [] s = "a{1000} {5}" -> Facts(1005, 1000, "a{1000}", 0, "a{35}")
      [] s = "<script>alert('xss')</script>" ->
            Facts(29, 29, "<script>alert('xss')</script>", 1,
                  "scriptalertxssscript")
      [] s = "use EVAL(x) to blink" ->
            Facts(20, 20, "use eval(x) to blink", 3, "use_evalx_to_blink")
      [] s = "open JavaScript: url" ->
            Facts(20, 20, "open javascript: url", 2,
                  "open_javascript_url")
      [] s = "run exec(cmd) on boot" ->
            Facts(21, 21, "run exec(cmd) on boot", 4, "run_execcmd_on_boot")
      [] s = "Use GPIO 4" -> Facts(10, 10, "use gpio 4", 0, "use_gpio_4")

NoError == Fmt("", 0, 0)

\* the lengths taken of the description as given, without description.strip()
ValidateDescriptionUnstripped(description, min_length, max_length) ==
    IF StrFacts(description).chars = 0
    THEN Fmt("Description cannot be empty", 0, 0)
    ELSE IF StrFacts(description).chars < min_length
    THEN Fmt("Description too short (minimum {a} characters, got {b})",
             min_length, StrFacts(description).chars)
    ELSE IF StrFacts(description).chars > max_length
    THEN Fmt("Description too long (maximum {a} characters, got {b})",
             max_length, StrFacts(description).chars)
    ELSE IF StrFacts(description).pattern # 0
    THEN Fmt("Invalid characters detected: {suspicious_patterns[a]}",
             StrFacts(description).pattern, 0)
    ELSE NoError

\* validate_description(description, min_length, max_length): the message
\* of the ValidationError it raises, NoError when it returns
validate_description(description, min_length, max_length) ==
    IF StrFacts(description).chars = 0
    THEN Fmt("Description cannot be empty", 0, 0)
    ELSE IF StrFacts(description).stripped < min_length
    THEN Fmt("Description too short (minimum {a} characters, got {b})",
             min_length, StrFacts(description).stripped)
    ELSE IF StrFacts(description).stripped > max_length
    THEN Fmt("Description too long (maximum {a} characters, got {b})",
             max_length, StrFacts(description).stripped)
    ELSE IF StrFacts(description).pattern # 0
    THEN Fmt("Invalid characters detected: {suspicious_patterns[a]}",
             StrFacts(description).pattern, 0)
    ELSE NoError

\* ResponseCache.get_cache_key(description, context, board="esp32dev",
\* **kwargs): the key is the MD5 digest of the normalised data; it is kept
\* as the data, two requests having one key when their data are equal
get_cache_key(description, context, kwargs) ==
    [description |-> StrFacts(description).lower,
     context |-> IF context = Absent \/ context = "" THEN ""
                 ELSE StrFacts(context).lower,
     board |-> "esp32dev",
     kwargs |-> kwargs]

\* make_unique_filename(description, ext) at time now: the name without its
\* extension
make_unique_filename(description, now) ==
    [stem |-> StrFacts(description).stem, stamp |-> now]

\* save_code_to_file: open(filepath, "w") makes the file the newest one;
\* a file of the same name is overwritten
save_code_to_file(files, name) ==
    Append(SelectSeq(files, LAMBDA f : f # name), name)

\* cleanup_old_files(max_files): the max_files newest .cpp files stay
cleanup_old_files(files, max_files) ==
    IF Len(files) > max_files
    THEN SubSeq(files, Len(files) - max_files + 1, Len(files))
    ELSE files

(***************************************************************************)
(* The LLM's answer is a text in pieces, as the analyzed text is; the      *)
(* pieces "~~~cpp\n" and "~~~" are the fences of a code block, ~ standing *)
(* for the backquote.  The answers of the model hold at most one block.    *)
(***************************************************************************)
\* s.rstrip() of a piece
RStrip(piece) ==
    CASE piece = "const int LED = 2;\n" -> "const int LED = 2;"
      [] piece = "void loop() {}\n" -> "void loop() {}"

\* text.strip() of a text that begins with no whitespace
Strip(text) ==
    IF text = <<>> THEN <<>>
    ELSE [text EXCEPT ![Len(text)] = RStrip(text[Len(text)])]

\* clean_code_output(raw_response)
clean_code_output(raw_response) ==
    LET opens == {i \in DOMAIN raw_response : raw_response[i] = "~~~cpp\n"}
        open == CHOOSE i \in opens : \A j \in opens : i <= j
        closes == {j \in DOMAIN raw_response :
                        j > open /\ raw_response[j] = "~~~"}
        close == CHOOSE j \in closes : \A k \in closes : j <= k
    IN  IF opens # {} /\ closes # {}
        THEN Strip(SubSeq(raw_response, open + 1, close - 1))
        ELSE Strip(raw_response)

\* validate_generated_code(code, min_length): the message of the
\* ValidationError it raises, NoError when it returns
validate_generated_code(generated, min_length) ==
    IF generated = <<>>
    THEN Fmt("Generated code is empty", 0, 0)
    ELSE IF StrLen(generated) < min_length
    THEN Fmt("Generated code too small (minimum {a} characters, got {b})",
             min_length, StrLen(generated))
    ELSE IF ~Contains(generated, "setup") \/ ~Contains(generated, "loop")
    THEN Fmt("Generated code missing required elements", 0, 0)
    ELSE NoError

NoRequest ==
    [description |-> "", context |-> Absent, compile |-> FALSE,
     generate_docs |-> FALSE]

\* what is known of the last request: the request, the status and detail
\* of its response, whether the cache gave a response for it, and the
\* counters and files as they were when it arrived
NoResponse ==
    [n |-> 0, request |-> NoRequest, status |-> 0, detail |-> NoError,
     cached |-> FALSE, repeat |-> FALSE,
     before |-> [hits |-> 0, misses |-> 0, llm_calls |-> 0,
                 src_files |-> <<>>, docs_files |-> {}]]

(***************************************************************************)
(* retry_with_backoff (src/utils/error_handling.py).  Delays are counted   *)
(* in tenths of a second and the factors of the model are whole numbers,   *)
(* so that the products are exact.  Exceptions are named by their class.   *)
(***************************************************************************)
\* the classes an exception of class cls is an instance of
Bases(cls) ==
    CASE cls = "ValueError" -> {"ValueError", "Exception"}
      [] cls = "KeyError" -> {"KeyError", "LookupError", "Exception"}
      [] cls = "CodeGenerationException" -> {"CodeGenerationException", "Exception"}
      [] cls = "OllamaConnectionError" ->
            {"OllamaConnectionError", "CodeGenerationException", "Exception"}

\* except exceptions as e: does the clause catch an exception of class cls
Catches(exceptions, cls) == Bases(cls) \cap exceptions # {}

IdleRetry ==
    [pc |-> "idle", max_retries |-> 0, initial_delay |-> 0,
     backoff_factor |-> 0, exceptions |-> {}, attempt |-> 0, delay |-> 0,
     log |-> <<>>, result |-> NoOutcome]

\* the wrapper is entered: delay = initial_delay, and the loop
\* over range(max_retries) begins or, being empty, ends with return None
RetryEnter(max_retries, initial_delay, backoff_factor, exceptions) ==
    [pc |-> IF max_retries > 0 THEN "call" ELSE "done",
     max_retries |-> max_retries, initial_delay |-> initial_delay,
     backoff_factor |-> backoff_factor, exceptions |-> exceptions,
     attempt |-> 0, delay |-> initial_delay, log |-> <<>>,
     result |-> IF max_retries > 0 THEN NoOutcome ELSE Returned("None")]

CallEvent(raised) == [ev |-> "call", raised |-> raised, secs |-> 0]
SleepEvent(delay) == [ev |-> "sleep", raised |-> "", secs |-> delay]

\* `delay *= backoff_factor` written as `delay += backoff_factor`
BackoffAdds(delay, backoff_factor) == delay + backoff_factor

\* delay *= backoff_factor
Backoff(delay, backoff_factor) == delay * backoff_factor

\* return func(...) and the except clause: func returns
\* (raised = "") or raises an exception of class raised
RetryInvoke(w, raised) ==
    LET called == [w EXCEPT !.log = Append(@, CallEvent(raised))]
    IN  IF raised = ""
        THEN [called EXCEPT !.pc = "done", !.result = Returned("value")]
        ELSE IF ~Catches(w.exceptions, raised)
        THEN [called EXCEPT !.pc = "done", !.result = Raised(raised)]
        ELSE IF w.attempt < w.max_retries - 1
        THEN [called EXCEPT !.pc = "sleep"]
        ELSE [called EXCEPT !.pc = "done",
                            !.result = Raised("CodeGenerationException")]

\* time.sleep(delay); delay *= backoff_factor; the next attempt of the loop
RetrySleep(w) ==
    [w EXCEPT !.pc = "call", !.log = Append(@, SleepEvent(w.delay)),
              !.delay = Backoff(@, w.backoff_factor), !.attempt = @ + 1]

(***************************************************************************)
(* The service as main.py starts it.                                       *)
(***************************************************************************)
ServiceIdle ==
    /\ clock = 0
    /\ lru = <<>>
    /\ evicted = NoEviction
    /\ llm_calls = 0
    /\ src_files = <<>>
    /\ docs_files = {}
    /\ http = NoResponse
    /\ succeeded = {}
    /\ retry = IdleRetry

\* response_cache = ResponseCache(ttl_minutes=30, max_size=100)
ServiceStart ==
    /\ response_cache = NewResponseCache(30, 100)
    /\ ServiceIdle

(***************************************************************************)
(* The callers.  Two requests are fixed at the start: the first ranges     *)
(* over every request of the model, the second over those of at most one   *)
(* piece for the default board and the small real-time board.              *)
(* Callers make them in any order and any number of times, on one instance *)
(* one call after the other (Spec), or each once at the same time on the   *)
(* instance MCPClient keeps (SpecConc).                                    *)
(***************************************************************************)
Alphabet ==
    {"void setup() {}\n", "char buf[2000];\n", "delay(15000);\n",
     " {450000}", "char buf[0{5000}2000];\n"}

TextsOver(alphabet, n) == UNION {[1..k -> alphabet] : k \in 0..n}

StrBoards == {Str(b) : b \in BoardIds \cup {"arduino_uno"}}

\* calls that break the signature analyze(code: str, board: str)
IllTyped ==
    {[code |-> NoneVal, board |-> Str("esp32dev")],
     [code |-> ListVal, board |-> Str("esp32c3")],
     [code |-> Str(<<"char buf[2000];\n">>), board |-> IntBoard],
     [code |-> Str(<<"char buf[2000];\n">>), board |-> ListBoard]}

RequestsUpTo(n) ==
    [code : {Str(t) : t \in TextsOver(Alphabet, n)}, board : StrBoards] \cup IllTyped

Requests == RequestsUpTo(MaxLen)

OtherRequests ==
    [code : {Str(t) : t \in TextsOver(Alphabet, 1)},
     board : {Str("esp32dev"), Str("esp32c3")}]
    \cup {[code |-> NoneVal, board |-> Str("esp32dev")]}

ConcRequests ==
    [code : {Str(<<>>), Str(<<"char buf[2000];\n">>)},
     board : {Str("esp32dev"), Str("esp32c3")}]

Callers == {1, 2}

Self == [code |-> code, board |-> board, issues |-> issues,
         quality_score |-> quality_score]

SetSelf(m) ==
    /\ code' = m.code
    /\ board' = m.board
    /\ issues' = m.issues
    /\ quality_score' = m.quality_score

InitCommon ==
    /\ code = NewAnalyzer.code
    /\ board = NewAnalyzer.board
    /\ issues = NewAnalyzer.issues
    /\ quality_score = NewAnalyzer.quality_score
    /\ last = 0
    /\ ret = NoOutcome
    /\ first = [k \in Callers |-> NoOutcome]
    /\ frames = [k \in Callers |-> IdleFrame]
    /\ ServiceStart

Init ==
    /\ InitCommon
    /\ int_max_str_digits \in {INT_MAX_STR_DIGITS, 0}
    /\ req \in {<<r, o>> : r \in Requests, o \in OtherRequests}

\* analyzer.analyze(code, board), the call run from its first line to its
\* return or its exception
Call(k) ==
    LET r == analyze(Self, req[k].code, req[k].board, int_max_str_digits)
    IN  /\ SetSelf(r.m)
        /\ ret' = r.ret
        /\ last' = k
        /\ first' = IF first[k] = NoOutcome THEN [first EXCEPT ![k] = r.ret] ELSE first
        /\ UNCHANGED <<int_max_str_digits, req, frames>>
        /\ UNCHANGED service

\* mcp_client = MCPClient(): the process starts again with a new analyzer
Construct ==
    /\ last # 0
    /\ SetSelf(NewAnalyzer)
    /\ last' = 0
    /\ ret' = NoOutcome
    /\ first' = [k \in Callers |-> NoOutcome]
    /\ UNCHANGED <<int_max_str_digits, req, frames>>
    /\ UNCHANGED service

Next == (\E k \in Callers : Call(k)) \/ Construct

Spec == Init /\ [][Next]_vars

(***************************************************************************)
(* Concurrent callers of MCPClient.analyze_code_quality: each delegates to *)
(* self.quality_analyzer.analyze, the one instance made in __init__; the   *)
(* calls interleave between the statements of analyze.                     *)
(***************************************************************************)
ConcInit ==
    /\ InitCommon
    /\ int_max_str_digits = INT_MAX_STR_DIGITS
    /\ req \in [Callers -> ConcRequests]

\* MCPClient.analyze_code_quality(code, board) enters analyze
Enter(k) ==
    /\ frames[k].pc = "idle"
    /\ frames' = [frames EXCEPT ![k] = NewFrame(req[k].code, req[k].board)]
    /\ UNCHANGED <<code, board, issues, quality_score, int_max_str_digits,
                   req, last, ret, first>>
    /\ UNCHANGED service

\* the caller's next statement of analyze
Advance(k) ==
    /\ frames[k].pc \notin {"idle", "done"}
    /\ LET n == Step(Self, frames[k], int_max_str_digits)
       IN  /\ SetSelf(n.m)
           /\ frames' = [frames EXCEPT ![k] = n.f]
    /\ UNCHANGED <<int_max_str_digits, req, last, ret, first>>
    /\ UNCHANGED service

ConcNext == \E k \in Callers : Enter(k) \/ Advance(k)

SpecConc == ConcInit /\ [][ConcNext]_vars

(***************************************************************************)
(* One caller and the texts that exercise the rule sets: a head of entry   *)
(* points and declarations, followed by a body of at most MaxBody lines    *)
(* taken in the order of BodyAlphabet; and the texts whose size puts the   *)
(* RAM usage of esp32dev at and just above 50 % and 80 %.                  *)
(***************************************************************************)
BodyAlphabet ==
    <<"char buf[2000];\n", "char buf[1001];\n", "char buf[1000];\n",
      "char s[];\n", "delay(10000);\n", "delay(9999);\n", "delay(1000);\n",
      "delay(999);\n", " {501}", "\n{52}">>

Bodies(n) ==
    UNION {{[i \in 1..k |-> BodyAlphabet[s[i]]] :
                s \in {x \in [1..k -> 1..Len(BodyAlphabet)] :
                            \A i \in 1..k : \A j \in 1..k : i <= j => x[i] <= x[j]}}
           : k \in 0..n}

Heads ==
    {<<>>, <<"void setup() {}\n">>, <<"void loop() {}\n">>,
     <<"void setup() {}\n", "void loop() {}\n">>,
     <<"void setup() {}\n", "void loop() {}\n", "Serial.begin(115200);\n",
       "const int LED = 2;\n">>}

BoundaryTexts ==
    {<<" {163840}">>, <<" {163841}">>, <<" {323584}">>, <<" {323585}">>}

\* the minimal valid text, its four lines in two orders
MinimalTexts ==
    {<<"void setup() {}\n", "void loop() {}\n", "Serial.begin(115200);\n",
       "const int LED = 2;\n">>,
     <<"const int LED = 2;\n", "void loop() {}\n", "void setup() {}\n",
       "Serial.begin(115200);\n">>}

RuleTexts(n) ==
    {h \o b : h \in Heads, b \in Bodies(n)} \cup BoundaryTexts \cup MinimalTexts

RuleRequests == [code : {Str(t) : t \in RuleTexts(MaxBody)}, board : StrBoards]

InitRules ==
    /\ InitCommon
    /\ int_max_str_digits = INT_MAX_STR_DIGITS
    /\ req \in {<<r, r>> : r \in RuleRequests}

RulesNext == Call(1) \/ Construct

SpecRules == InitRules /\ [][RulesNext]_vars

(***************************************************************************)
(* One caller and the texts that exercise the counting rules: runs of a    *)
(* line repeated a number of times, one run after the other.               *)
(***************************************************************************)
Rep(piece, n) == [i \in 1..n |-> piece]

\* one of the runs of `pieces`, or none
Opt(pieces) == {<<>>} \cup {<<p>> : p \in pieces}

MemTexts ==
    {Rep("p = malloc(8);\n", a) \o Rep("free(p);\n", f)
        \o Rep("Serial.print('0123456789');\n", l) \o k \o s \o q :
        a \in 0..MaxAllocs, f \in 0..MaxAllocs, l \in 0..MaxLong,
        k \in Opt({"Serial.println('Temperature: ');\n"}),
        s \in Opt({"Serial.print('012345678');\n"}),
        q \in Opt({"Serial.println(F('Temperature: '));\n"})}

PerfTexts ==
    {Rep("Serial.print('t');\n", n) \o w \o v \o d \o e :
        n \in 0..MaxPrints,
        w \in Opt({"while (1) {}\n"}), v \in Opt({"while (true) {}\n"}),
        d \in Opt({"delay(100);\n"}), e \in Opt({"delay(1000);\n"})}

SafetyTexts ==
    {b \o Rep("if (x) {}\n", n) \o fill :
        b \in Opt({"Serial.begin(115200);\n"}), n \in 0..MaxIfs,
        fill \in Opt({" {490}", " {491}", " {500}", " {501}"})}

StyleTexts ==
    {c \o fill \o nl \o Rep("// note\n", m) \o Rep("int helper() {}\n", h) :
        c \in Opt({"const int LED = 2;\n"}), fill \in Opt({" {200}", " {201}"}),
        nl \in Opt({"\n{29}", "\n{30}", "\n{37}", "\n{49}", "\n{50}"}),
        m \in 0..MaxMarks, h \in 0..MaxMarks}

CountRequests ==
    [code : {Str(t) : t \in MemTexts \cup PerfTexts \cup SafetyTexts \cup StyleTexts},
     board : StrBoards]

InitCounts ==
    /\ InitCommon
    /\ int_max_str_digits = INT_MAX_STR_DIGITS
    /\ req \in {<<r, r>> : r \in CountRequests}

SpecCounts == InitCounts /\ [][RulesNext]_vars

(***************************************************************************)
(* The analyzer of a service that is not asked for an analysis by a caller *)
(* of the model.                                                           *)
(***************************************************************************)
AnalyzerStart ==
    /\ code = NewAnalyzer.code
    /\ board = NewAnalyzer.board
    /\ issues = NewAnalyzer.issues
    /\ quality_score = NewAnalyzer.quality_score
    /\ int_max_str_digits = INT_MAX_STR_DIGITS
    /\ req = <<[code |-> Str(<<>>), board |-> Str("esp32dev")],
               [code |-> Str(<<>>), board |-> Str("esp32dev")]>>
    /\ last = 0
    /\ ret = NoOutcome
    /\ first = [k \in Callers |-> NoOutcome]
    /\ frames = [k \in Callers |-> IdleFrame]

analyzer == <<code, board, issues, quality_score, int_max_str_digits,
              req, last, ret, first, frames>>

\* time passes
Tick ==
    /\ clock < MaxClock
    /\ clock' = clock + 1
    /\ UNCHANGED <<response_cache, lru, evicted, llm_calls, src_files,
                   docs_files, http, succeeded, retry>>
    /\ UNCHANGED analyzer

(***************************************************************************)
(* A ResponseCache and its callers: get, set, clear and cleanup_expired    *)
(* in any order, the clock advancing between them or not.  lru lists the   *)
(* keys of the cache from the least to the most recently used, and         *)
(* evicted keeps, for the last set that found the cache full, the key it   *)
(* removed and the key that was the least recently used one.               *)
(***************************************************************************)
CacheKeys == {"k1", "k2", "k3"}

CacheValues == {"r1", "r2"}

InitCache ==
    /\ AnalyzerStart
    /\ ServiceIdle
    /\ response_cache \in {NewResponseCache(t, m) : t \in 1..MaxTtl, m \in 1..MaxSize}

\* cache.get(key)
CacheGet(key) ==
    LET r == get(response_cache, key, clock)
    IN  /\ response_cache.hits + response_cache.misses < MaxLookups
        /\ response_cache' = r.self
        /\ lru' = IF r.value # Absent THEN Touch(lru, key)
                  ELSE Forget(lru, r.self.cache)
        /\ UNCHANGED <<clock, evicted, llm_calls, src_files, docs_files, http,
                       succeeded, retry>>
        /\ UNCHANGED analyzer

\* cache.set(key, value)
CacheSet(key, value) ==
    LET after == set(response_cache, key, value, clock)
    IN  /\ response_cache' = after
        /\ evicted' = IF Len(response_cache.cache) >= response_cache.max_size
                      THEN [key |-> OldestKey(response_cache.cache),
                            least_recent |-> Head(lru)]
                      ELSE evicted
        /\ lru' = Touch(Forget(lru, after.cache), key)
        /\ UNCHANGED <<clock, llm_calls, src_files, docs_files, http,
                       succeeded, retry>>
        /\ UNCHANGED analyzer

\* cache.clear()
CacheClear ==
    /\ response_cache' = clear(response_cache)
    /\ lru' = <<>>
    /\ UNCHANGED <<clock, evicted, llm_calls, src_files, docs_files, http,
                   succeeded, retry>>
    /\ UNCHANGED analyzer

\* cache.cleanup_expired()
CacheCleanup ==
    /\ response_cache' = cleanup_expired(response_cache, clock)
    /\ lru' = Forget(lru, response_cache'.cache)
    /\ UNCHANGED <<clock, evicted, llm_calls, src_files, docs_files, http,
                   succeeded, retry>>
    /\ UNCHANGED analyzer

CacheNext ==
    \/ \E key \in CacheKeys : CacheGet(key)
    \/ \E key \in CacheKeys : \E value \in CacheValues : CacheSet(key, value)
    \/ CacheClear
    \/ CacheCleanup
    \/ Tick

SpecCache == InitCache /\ [][CacheNext]_vars

(***************************************************************************)
(* The generate-code endpoint (src/main.py, generate_code).  One request   *)
(* is handled from its arrival to its response; what the LLM answers and   *)
(* whether the documentation generator gives a text are the environment's  *)
(* choice.  The compiler's result changes nothing the model keeps.         *)
(***************************************************************************)
Descriptions ==
    {"", "   ", "abc", "  abc   ", "blin", "blink", "blink LED on GPIO 2",
     " Blink LED on GPIO 2 ", "a{1000}", "a{1001}", "a{1000} {5}",
     "<script>alert('xss')</script>", "use EVAL(x) to blink",
     "open JavaScript: url", "run exec(cmd) on boot"}

Request(description, context, compile, generate_docs) ==
    [description |-> description, context |-> context, compile |-> compile,
     generate_docs |-> generate_docs]

\* every description with the defaults of CodeGenerationRequest, and the
\* request of test_cache_functionality with its variants
GenRequests ==
    {Request(d, Absent, TRUE, TRUE) : d \in Descriptions}
    \cup {Request(d, Absent, FALSE, FALSE) :
            d \in {"blink LED on GPIO 2", " Blink LED on GPIO 2 ", "abc"}}
    \cup {Request("blink LED on GPIO 2", "Use GPIO 4", TRUE, TRUE),
          Request("blink LED on GPIO 2", "", TRUE, TRUE)}

Reply(raises, content) == [raises |-> raises, content |-> content]

LLMReplies ==
    {Reply(TRUE, <<>>),
     Reply(FALSE, <<>>),
     Reply(FALSE, <<"~~~cpp\n", "void setup() {}\n", "void loop() {}\n",
                    "Serial.begin(115200);\n", "const int LED = 2;\n", "~~~">>),
     Reply(FALSE, <<"void setup() {}\n", "void loop() {}\n", "char buf[2000];\n",
                    "const int LED = 2;\n">>),
     Reply(FALSE, <<"Here is the code:\n", "~~~cpp\n", "void loop() {}\n", "~~~">>),
     Reply(FALSE, <<"~~~cpp\n", "Serial.begin(115200);\n", "char buf[2000];\n",
                    "void loop() {}\n", "~~~">>)}

\* the files a run of the service left in PLATFORMIO_SRC_PATH
OldFiles ==
    <<[stem |-> "blink", stamp |-> -3], [stem |-> "generated", stamp |-> -2],
      [stem |-> "blink_led_on_gpio_2", stamp |-> -1]>>

\* the service starts with the source directory empty or as a run left it
InitApi ==
    /\ AnalyzerStart
    /\ response_cache = NewResponseCache(30, 100)
    /\ clock = 0
    /\ lru = <<>>
    /\ evicted = NoEviction
    /\ llm_calls = 0
    /\ src_files \in {<<>>, OldFiles}
    /\ docs_files = {}
    /\ http = NoResponse
    /\ succeeded = {}
    /\ retry = IdleRetry

\* the request as it arrives
Arrival(request, cache_key) ==
    [n |-> http.n + 1, request |-> request, status |-> 0, detail |-> NoError,
     cached |-> FALSE,
     repeat |-> \E s \in succeeded :
                    s.key = cache_key /\ clock - s.at < response_cache.ttl,
     before |-> [hits |-> response_cache.hits, misses |-> response_cache.misses,
                 llm_calls |-> llm_calls, src_files |-> src_files,
                 docs_files |-> docs_files]]

\* POST /api/generate-code
GenerateCode(request, reply, doc_content) ==
    LET error == validate_description(request.description, 5, 1000)
        cache_key ==
            get_cache_key(request.description,
                          IF request.context = Absent THEN "" ELSE request.context,
                          [compile |-> request.compile,
                           generate_docs |-> request.generate_docs])
        cached_response == get(response_cache, cache_key, clock)
        kept == cleanup_old_files(src_files, 2)
        code_only == clean_code_output(reply.content)
        invalid == validate_generated_code(code_only, 50)
        filepath == make_unique_filename(request.description, clock)
        quality_analysis ==
            analyze(Self, Str(code_only), Str("esp32dev"), int_max_str_digits)
        arrival == Arrival(request, cache_key)
        looked == [arrival EXCEPT !.cached = cached_response.value # Absent]
    IN  /\ http.n < MaxRequests
        /\ UNCHANGED <<clock, lru, evicted, retry>>
        /\ UNCHANGED <<int_max_str_digits, req, last, ret, first, frames>>
        /\ IF error # NoError
           THEN \* raise HTTPException(status_code=400, detail=str(e))
                /\ http' = [arrival EXCEPT !.status = 400, !.detail = error]
                /\ UNCHANGED <<response_cache, llm_calls, src_files,
                               docs_files, succeeded>>
                /\ UNCHANGED <<code, board, issues, quality_score>>
           ELSE IF reply.raises \/ invalid # NoError
           THEN \* the except clauses of the generation
                /\ response_cache' = cached_response.self
                /\ src_files' = kept
                /\ llm_calls' = llm_calls + 1
                /\ http' = [looked EXCEPT
                                !.status = 500,
                                !.detail = IF reply.raises
                                           THEN Fmt("Code generation failed", 0, 0)
                                           ELSE invalid]
                /\ UNCHANGED <<docs_files, succeeded>>
                /\ UNCHANGED <<code, board, issues, quality_score>>
           ELSE IF quality_analysis.ret.kind = "raise"
           THEN \* an exception no clause catches
                /\ response_cache' = cached_response.self
                /\ src_files' = save_code_to_file(kept, filepath)
                /\ llm_calls' = llm_calls + 1
                /\ SetSelf(quality_analysis.m)
                /\ http' = [looked EXCEPT
                                !.status = 500,
                                !.detail = Fmt("Internal Server Error", 0, 0)]
                /\ UNCHANGED <<docs_files, succeeded>>
           ELSE /\ response_cache' = cached_response.self
                /\ src_files' = save_code_to_file(kept, filepath)
                /\ llm_calls' = llm_calls + 1
                /\ SetSelf(quality_analysis.m)
                /\ docs_files' = IF request.generate_docs /\ doc_content
                                 THEN docs_files \cup {filepath}
                                 ELSE docs_files
                /\ succeeded' = {s \in succeeded : s.key # cache_key}
                                    \cup {[key |-> cache_key, at |-> clock]}
                /\ http' = [looked EXCEPT !.status = 200]

ApiNext ==
    \/ \E request \in GenRequests : \E reply \in LLMReplies :
            \E doc_content \in BOOLEAN : GenerateCode(request, reply, doc_content)
    \/ Tick

SpecApi == InitApi /\ [][ApiNext]_vars

(***************************************************************************)
(* A function wrapped by retry_with_backoff and its caller: the wrapper is *)
(* called, the function returns or raises at each invocation as the        *)
(* environment chooses, and the wrapper sleeps between the attempts.       *)
(***************************************************************************)
ExceptionLists ==
    {{"Exception"}, {"ValueError"}, {"OllamaConnectionError", "ValueError"}}

RaisedClasses == {"ValueError", "OllamaConnectionError", "KeyError"}

InitRetry ==
    /\ AnalyzerStart
    /\ ServiceStart

\* the wrapped function is called
RetryCall(max_retries, initial_delay, backoff_factor, exceptions) ==
    /\ retry.pc \in {"idle", "done"}
    /\ retry' = RetryEnter(max_retries, initial_delay, backoff_factor, exceptions)
    /\ UNCHANGED <<response_cache, clock, lru, evicted, llm_calls, src_files,
                   docs_files, http, succeeded>>
    /\ UNCHANGED analyzer

\* func(...) returns or raises
Invoke(raised) ==
    /\ retry.pc = "call"
    /\ retry' = RetryInvoke(retry, raised)
    /\ UNCHANGED <<response_cache, clock, lru, evicted, llm_calls, src_files,
                   docs_files, http, succeeded>>
    /\ UNCHANGED analyzer

\* time.sleep(delay) returns
Sleep ==
    /\ retry.pc = "sleep"
    /\ retry' = RetrySleep(retry)
    /\ UNCHANGED <<response_cache, clock, lru, evicted, llm_calls, src_files,
                   docs_files, http, succeeded>>
    /\ UNCHANGED analyzer

RetryNext ==
    \/ \E max_retries \in 0..MaxRetries : \E initial_delay \in {1, 10} :
            \E backoff_factor \in {2, 3} : \E exceptions \in ExceptionLists :
                RetryCall(max_retries, initial_delay, backoff_factor, exceptions)
    \/ \E raised \in RaisedClasses \cup {""} : Invoke(raised)
    \/ Sleep

SpecRetry == InitRetry /\ [][RetryNext]_vars

(***************************************************************************)
(* Properties.                                                             *)
(***************************************************************************)
IsReturn(o) == o.kind = "return"
IsRaise(o) == o.kind = "raise"

\* the request whose outcome is `ret`
Served == req[last]

\* what a newly constructed analyzer gives for request r
Fresh(r) == analyze(NewAnalyzer, r.code, r.board, int_max_str_digits).ret

WellTyped(r) == IsStr(r.code) /\ IsStr(r.board)

\* C1: the quality_score of every report analyze returns is an integer
\* from 0 to 100, whatever issues the five rule sets emitted.
C1_ScoreInRange ==
    IsReturn(ret) => ret.report.quality_score \in 0..100

\* C1 witness: a report whose issues carry more than 100 points of penalty.
C1_Witness ==
    /\ IsReturn(ret)
    /\ TotalPenalty(ret.report.issues, BoardGet(Served.board)) > 100
    /\ ret.report.quality_score = 0

\* C2: in every report the usage percentage (in tenths) is from 0 to 100
\* and the estimated free RAM is not negative, also when the text and the
\* reserved RAM exceed the board's RAM.
C2_MemoryInRange ==
    IsReturn(ret) =>
        /\ ret.report.estimated_ram_usage_percent \in 0..1000
        /\ ret.report.estimated_free_ram_kb >= 0

\* C2 witness: a report for a text that is larger than the board's RAM.
C2_Witness ==
    /\ IsReturn(ret)
    /\ StrLen(Served.code.text) > BoardGet(Served.board).total_ram_kb * 1024
    /\ ret.report.estimated_ram_usage_percent = 1000
    /\ ret.report.estimated_free_ram_kb = 0

\* C3: in every report each severity bucket holds exactly the issues of the
\* flat list with that severity, each type bucket exactly those with that
\* type, every issue has one of the four severities and one of the five
\* types, and the four counts add up to issues_count, the length of the
\* flat list.
C3_BucketsPartition ==
    IsReturn(ret) =>
        LET R == ret.report
        IN  /\ \A i \in 1..Len(R.issues) :
                    R.issues[i].severity \in Severities /\ R.issues[i].type \in IssueTypes
            /\ DOMAIN R.issues_by_severity = Severities
            /\ DOMAIN R.issues_by_type = IssueTypes
            /\ \A s \in Severities :
                    R.issues_by_severity[s] = SelectSeq(R.issues, LAMBDA i : i.severity = s)
            /\ \A t \in IssueTypes :
                    R.issues_by_type[t] = SelectSeq(R.issues, LAMBDA i : i.type = t)
            /\ R.critical_count = Len(R.issues_by_severity["critical"])
            /\ R.high_count = Len(R.issues_by_severity["high"])
            /\ R.medium_count = Len(R.issues_by_severity["medium"])
            /\ R.low_count = Len(R.issues_by_severity["low"])
            /\ R.critical_count + R.high_count + R.medium_count + R.low_count = R.issues_count
            /\ R.issues_count = Len(R.issues)

\* C3 witness: a report with issues of all four severities and of all five
\* types.
C3_Witness ==
    /\ IsReturn(ret)
    /\ \A s \in Severities : ret.report.issues_by_severity[s] # <<>>
    /\ \A t \in IssueTypes : ret.report.issues_by_type[t] # <<>>

\* both requests have been served at least once
BothServed == first[1] # NoOutcome /\ first[2] # NoOutcome

UnknownBoard(b) == IsStr(b) /\ b.text \notin BoardIds

\* C4: a call whose board id is a string outside esp32dev, esp32s3, esp32c3
\* ends as the call on the same text with board id esp32dev ends: with a
\* report equal in every field, and with no error of its own.
C4_UnknownBoardAsDefault ==
    (/\ BothServed
     /\ req[1].code = req[2].code
     /\ UnknownBoard(req[1].board)
     /\ req[2].board = Str("esp32dev"))
    => /\ first[1] = first[2]
       /\ ~(IsRaise(first[1]) /\ first[1].exc = "TypeError")

\* C4 witness: reports of one text with a large array, asked for board
\* "arduino_uno" and for board "esp32dev".
C4_Witness ==
    /\ BothServed
    /\ req[1].code = req[2].code
    /\ req[1].board = Str("arduino_uno")
    /\ req[2].board = Str("esp32dev")
    /\ IsReturn(first[1])
    /\ first[1].report.issues_by_type["memory"] # <<>>
    /\ first[1].report.board = "ESP32 DevKit V1"

\* C5: two calls of analyze with the same arguments end alike: a later call
\* of a request ends as its first call did, whatever was called in between,
\* and two requests with equal arguments end alike.
C5_Deterministic ==
    /\ (last # 0 /\ first[last] # NoOutcome) => ret = first[last]
    /\ (BothServed /\ req[1] = req[2]) => first[1] = first[2]

\* C5 witness: both callers asked for the same analysis and each has its
\* report, with issues in it.
C5_Witness ==
    /\ BothServed
    /\ req[1] = req[2]
    /\ last = 2
    /\ IsReturn(ret)
    /\ ret.report.issues_count > 3

\* C7: whatever calls the instance served before, a call that returns
\* returns what a newly constructed instance returns for its arguments.
C7_Stateless ==
    (last # 0 /\ IsReturn(ret)) => ret = Fresh(Served)

\* C7 witness: a report for the first request from an instance that served
\* a different request before and found issues that this report lacks.
C7_Witness ==
    /\ last = 1
    /\ BothServed
    /\ IsReturn(ret)
    /\ IsReturn(first[2])
    /\ req[1].code # req[2].code
    /\ first[2].report.issues_count > ret.report.issues_count

\* the number of issues of type t in `iss` whose severity is s or greater
Rank(s) ==
    CASE s = "critical" -> 4 [] s = "high" -> 3 [] s = "medium" -> 2 [] s = "low" -> 1

AtLeast(iss, t, s) ==
    Len(SelectSeq(iss, LAMBDA i : i.type = t /\ Rank(i.severity) >= Rank(s)))

\* the issues a contain the issues b at equal or greater severities: b maps
\* one-to-one into a, each issue to one of its type and of no lower severity
Covers(a, b) ==
    \A t \in IssueTypes : \A s \in Severities : AtLeast(a, t, s) >= AtLeast(b, t, s)

\* C8: for one board, when the issues of one report contain the issues of
\* another at equal or greater severities, its score is not the greater.
C8_Monotone ==
    (/\ BothServed
     /\ IsReturn(first[1]) /\ IsReturn(first[2])
     /\ req[1].board = req[2].board)
    => /\ Covers(first[1].report.issues, first[2].report.issues)
            => first[1].report.quality_score <= first[2].report.quality_score
       /\ Covers(first[2].report.issues, first[1].report.issues)
            => first[2].report.quality_score <= first[1].report.quality_score

\* C8 witness: on one board, a report with strictly more issues that
\* contains those of the other, and a strictly lower score.
C8_Witness ==
    /\ BothServed
    /\ IsReturn(first[1]) /\ IsReturn(first[2])
    /\ req[1].board = req[2].board
    /\ Covers(first[1].report.issues, first[2].report.issues)
    /\ first[1].report.issues_count > first[2].report.issues_count
    /\ first[1].report.quality_score < first[2].report.quality_score

\* C9 (as claimed): every call with a string code and a string board id
\* returns a report.
C9_Total ==
    (last # 0 /\ WellTyped(Served)) => IsReturn(ret)

\* C10 (as claimed): every call whose code or whose board id is not a
\* string fails with an error and returns no report.
C10_NonStringRejected ==
    (last # 0 /\ ~WellTyped(Served)) => IsRaise(ret)

\* C6 (as claimed): every call that ran concurrently with another on the
\* shared instance ends as the same call does when it runs alone.
C6_ConcurrentAsSequential ==
    \A k \in Callers :
        frames[k].pc = "done" => frames[k].ret = Fresh(req[k])

(***************************************************************************)
(* Properties of the rule sets and of the aggregation (SpecRules).         *)
(***************************************************************************)
\* the issue `issue` is in the list `iss` of a report
Has(iss, issue) == \E i \in 1..Len(iss) : iss[i] = to_dict(issue)

\* the number of issues of `iss` with severity s
NumSev(iss, s) == Len(SelectSeq(iss, LAMBDA i : i.severity = s))

\* the number of issues of `iss` with type t
NumType(iss, t) == Len(SelectSeq(iss, LAMBDA i : i.type = t))

EmptyServed == last # 0 /\ Served.code = Str(<<>>)

ClaimedBase(severity) ==
    CASE severity = "critical" -> 20 [] severity = "high" -> 12
      [] severity = "medium" -> 6 [] severity = "low" -> 3

ClaimedMult(type, ram_kb, realtime) ==
    CASE type = "correctness" -> <<1, 1>>
      [] type = "memory" -> IF ram_kb < 500 THEN <<3, 2>> ELSE <<1, 1>>
      [] type = "performance" -> IF realtime THEN <<13, 10>> ELSE <<4, 5>>
      [] type = "safety" -> <<1, 1>>
      [] type = "style" -> <<1, 2>>

ClaimedPenalty(issue, ram_kb, realtime) ==
    LET m == ClaimedMult(issue.type, ram_kb, realtime)
    IN  (ClaimedBase(issue.severity) * m[1]) \div m[2]

RECURSIVE ClaimedTotal(_, _, _)
ClaimedTotal(iss, ram_kb, realtime) ==
    IF iss = <<>> THEN 0
    ELSE ClaimedPenalty(iss[1], ram_kb, realtime) + ClaimedTotal(Tail(iss), ram_kb, realtime)

\* RAM and real-time class of the boards as the claims name them; an id
\* outside the three resolves to esp32dev
ClaimedRam(b) ==
    CASE b = Str("esp32s3") -> 1507 [] b = Str("esp32c3") -> 400 [] OTHER -> 520

ClaimedRealtime(b) == b = Str("esp32c3")

\* C12: the score of every report is 100 less the penalties of its issues,
\* each penalty the truncated product of the base of its severity and the
\* multiplier of its category on the board, brought into 0..100 at the end.
C12_ScoreFormula ==
    IsReturn(ret) =>
        LET total == ClaimedTotal(ret.report.issues, ClaimedRam(Served.board),
                                  ClaimedRealtime(Served.board))
        IN  ret.report.quality_score =
                (IF 100 - total < 0 THEN 0 ELSE IF 100 - total > 100 THEN 100 ELSE 100 - total)

\* C12 witness: a report on the real-time board with a memory issue, a
\* performance issue whose product 12 * 1.3 is truncated, and a style issue
\* whose product 3 * 0.5 is truncated, and a score that is not clamped.
C12_Witness ==
    /\ IsReturn(ret)
    /\ Served.board = Str("esp32c3")
    /\ \E i \in 1..Len(ret.report.issues) :
            ret.report.issues[i].type = "performance" /\ ret.report.issues[i].severity = "high"
    /\ \E i \in 1..Len(ret.report.issues) :
            ret.report.issues[i].type = "style" /\ ret.report.issues[i].severity = "low"
    /\ NumType(ret.report.issues, "memory") > 0
    /\ ret.report.quality_score \in 1..99

\* C13: the overall severity of every report follows from the counts of
\* the issue list of that report: critical with a critical issue; else high
\* with more than 2 high issues; else medium with a high issue or more than
\* 5 issues; else low with any issue; else excellent.
C13_OverallSeverity ==
    IsReturn(ret) =>
        LET R == ret.report
            nc == NumSev(R.issues, "critical")
            nh == NumSev(R.issues, "high")
            n == Len(R.issues)
        IN  R.severity =
                (IF nc >= 1 THEN "critical"
                 ELSE IF nh > 2 THEN "high"
                 ELSE IF nh >= 1 \/ n > 5 THEN "medium"
                 ELSE IF n >= 1 THEN "low"
                 ELSE "excellent")

\* C13 witness: a report with no critical issue and exactly three high
\* issues, rated high.
C13_Witness ==
    /\ IsReturn(ret)
    /\ NumSev(ret.report.issues, "critical") = 0
    /\ NumSev(ret.report.issues, "high") = 3
    /\ ret.report.severity = "high"

\* C14: the summary of every report carries the tier of the report's score
\* (excellent from 90, good from 75, acceptable from 50, poor below), that
\* score itself, and as highlights exactly the count of critical issues
\* when there is one, the memory concerns when there is a memory issue and
\* the performance bottlenecks when there is a performance issue ("no major
\* issues" standing for none).
C14_Summary ==
    IsReturn(ret) =>
        LET R == ret.report
            sc == R.quality_score
            nc == NumSev(R.issues, "critical")
            expected ==
                (IF nc > 0 THEN <<Fmt("{n} critical issue(s)", nc, 0)>> ELSE <<>>)
                \o (IF NumType(R.issues, "memory") > 0
                    THEN <<Fmt("memory concerns", 0, 0)>> ELSE <<>>)
                \o (IF NumType(R.issues, "performance") > 0
                    THEN <<Fmt("performance bottlenecks", 0, 0)>> ELSE <<>>)
        IN  /\ R.summary.score = sc
            /\ (sc >= 90) => R.summary.quality = "excellent"
            /\ (sc >= 75 /\ sc < 90) => R.summary.quality = "good"
            /\ (sc >= 50 /\ sc < 75) => R.summary.quality = "acceptable"
            /\ (sc < 50) => R.summary.quality = "poor"
            /\ R.summary.highlights =
                    (IF expected = <<>> THEN <<Fmt("no major issues", 0, 0)>> ELSE expected)

\* C14 witness: a report with score 50, the lowest of the acceptable tier,
\* whose summary names the critical issues.
C14_Witness ==
    /\ IsReturn(ret)
    /\ ret.report.quality_score = 50
    /\ ret.report.summary.quality = "acceptable"
    /\ ret.report.critical_count = 2
    /\ Len(ret.report.summary.highlights) = 1

\* the call served has string arguments and returned a report
Reported == last # 0 /\ WellTyped(Served) /\ IsReturn(ret)

\* C15: every report for a text with neither entry-point signature, asked
\* for board esp32dev, has two critical correctness issues and a score of
\* at most 60.
C15_NoEntryPoints ==
    (/\ Reported
     /\ Served.board = Str("esp32dev")
     /\ ~Contains(Served.code.text, "setup")
     /\ ~Contains(Served.code.text, "loop"))
    => /\ Len(SelectSeq(ret.report.issues,
                        LAMBDA i : i.type = "correctness" /\ i.severity = "critical")) = 2
       /\ ret.report.quality_score <= 60

\* C15 witness: the report for a text of three lines without entry points
\* on esp32dev, with other issues besides the two.
C15_Witness ==
    /\ Reported
    /\ Served.board = Str("esp32dev")
    /\ Len(Served.code.text) = 3
    /\ ~Contains(Served.code.text, "setup")
    /\ ~Contains(Served.code.text, "loop")
    /\ ret.report.issues_count > 3
    /\ ret.report.quality_score > 0

\* C16: for the minimal valid text (both entry points, a Serial.begin call,
\* one const declaration, nothing else) the call returns, on every board, a
\* report with overall severity low or excellent and a score of at least 75.
C16_MinimalText ==
    (last # 0 /\ Served.code.text \in MinimalTexts) =>
        /\ IsReturn(ret)
        /\ ret.report.severity \in {"low", "excellent"}
        /\ ret.report.quality_score >= 75

\* C16 witness: the report for the minimal text on the small real-time
\* board.
C16_Witness ==
    /\ last # 0
    /\ Served.code.text \in MinimalTexts
    /\ Served.board = Str("esp32c3")
    /\ IsReturn(ret)
    /\ ret.report.issues_count = 0

\* the values of the literals `lits`, in their order
IntsOf(lits) == [i \in 1..Len(lits) |-> IntOf(lits[i])]

\* the issues of a report whose message has one of the formats `texts`
WithMessage(iss, texts) == SelectSeq(iss, LAMBDA i : i.message.text \in texts)

\* C17: in every report the memory issues for large arrays are, in the
\* order of the text, one for each char array declared with a size above
\* 1000 and none for a size of 1000 or less, each critical on esp32c3
\* (400 kB) and high on esp32dev, esp32s3 and unknown ids.
C17_LargeArrays ==
    Reported =>
        LET big == SelectSeq(IntsOf(FindAll(Served.code.text, "sized")),
                             LAMBDA v : v > 1000)
            mem == WithMessage(ret.report.issues,
                               {"Large static array allocation ({size} bytes) detected"})
        IN  /\ Len(mem) = Len(big)
            /\ \A i \in 1..Len(mem) :
                    /\ mem[i].type = "memory"
                    /\ mem[i].message.a = big[i]
                    /\ mem[i].severity =
                          (IF Served.board = Str("esp32c3") THEN "critical" ELSE "high")

\* C17 witness: a report on esp32c3 for a text with arrays of 2000, 1001 and
\* 1000 bytes, with two critical memory issues.
C17_Witness ==
    /\ Reported
    /\ Served.board = Str("esp32c3")
    /\ IntsOf(FindAll(Served.code.text, "sized")) = <<2000, 1001, 1000>>
    /\ NumType(ret.report.issues, "memory") = 2
    /\ \A i \in 1..Len(ret.report.issues) :
            ret.report.issues[i].type = "memory" => ret.report.issues[i].severity = "critical"

\* C18: in every report the performance issues for delays are, in the order
\* of the text, one for each delay call of 1000 or more and none for a
\* shorter one; from 10000 on critical on the real-time board and high
\* elsewhere, from 1000 to 9999 high on the real-time board and medium
\* elsewhere.
C18_Delays ==
    Reported =>
        LET long == SelectSeq(IntsOf(FindAll(Served.code.text, "delays")),
                              LAMBDA d : d >= 1000)
            rt == ClaimedRealtime(Served.board)
            perf == WithMessage(ret.report.issues,
                        {"Very long delay ({delay_ms}ms) detected - blocks entire system",
                         "Long delay ({delay_ms}ms) may impact responsiveness"})
        IN  /\ Len(perf) = Len(long)
            /\ \A i \in 1..Len(perf) :
                    /\ perf[i].type = "performance"
                    /\ perf[i].message.a = long[i]
                    /\ perf[i].severity =
                          (IF long[i] >= 10000
                           THEN (IF rt THEN "critical" ELSE "high")
                           ELSE (IF rt THEN "high" ELSE "medium"))

\* C18 witness: a report on the real-time board for a text with delays of
\* 10000, 9999 and 999, with one critical and one high performance issue.
C18_Witness ==
    /\ Reported
    /\ Served.board = Str("esp32c3")
    /\ IntsOf(FindAll(Served.code.text, "delays")) = <<10000, 9999, 999>>
    /\ NumType(ret.report.issues, "performance") = 2
    /\ ret.report.issues_by_type["performance"][1].severity = "critical"
    /\ ret.report.issues_by_type["performance"][2].severity = "high"

\* C19 (as claimed): in every report memory_status is critical exactly when
\* the reported estimated_ram_usage_percent (in tenths) is above 80, warning
\* exactly when it is above 50 and at most 80, and good otherwise.
C19_StatusMatchesReported ==
    Reported =>
        LET pct == ret.report.estimated_ram_usage_percent
        IN  ret.report.memory_status =
                (IF pct > 800 THEN "critical" ELSE IF pct > 500 THEN "warning" ELSE "good")

\* C20: the correctness issues of every report are, in this order, one
\* critical issue when the setup signature is absent, one critical issue
\* when the loop signature is absent and one high issue when some char
\* array is declared with empty brackets, whatever their number: at most
\* three, and the same as for the same text on esp32dev.
C20_CorrectnessRules ==
    Reported =>
        LET t == Served.code.text
            cor == ret.report.issues_by_type["correctness"]
            expected ==
                (IF ~Contains(t, "setup") THEN <<<<"critical", MissingSetup.message>>>> ELSE <<>>)
                \o (IF ~Contains(t, "loop") THEN <<<<"critical", MissingLoop.message>>>> ELSE <<>>)
                \o (IF Contains(t, "unsized") THEN <<<<"high", UnboundedArray.message>>>> ELSE <<>>)
            dev == Fresh([code |-> Served.code, board |-> Str("esp32dev")])
        IN  /\ [i \in 1..Len(cor) |-> <<cor[i].severity, cor[i].message>>] = expected
            /\ Len(cor) <= 3
            /\ MissingSetup.message # MissingLoop.message
            /\ IsReturn(dev) /\ cor = dev.report.issues_by_type["correctness"]

\* C20 witness: a report on a board other than esp32dev for a text without
\* entry points that declares two arrays with empty brackets: three
\* correctness issues.
C20_Witness ==
    /\ Reported
    /\ Served.board = Str("esp32s3")
    /\ Len(SelectSeq(Served.code.text, LAMBDA p : Scan[p].unsized)) = 2
    /\ NumType(ret.report.issues, "correctness") = 3

(***************************************************************************)
(* Properties of the counting rules (SpecCounts).                          *)
(***************************************************************************)
\* the report has one issue with the message format `text`, of the given
\* type and severity, when `cond` holds, and none when it does not
OneIssueIff(iss, text, type, severity, cond) ==
    LET found == WithMessage(iss, {text})
    IN  /\ Len(found) = (IF cond THEN 1 ELSE 0)
        /\ \A i \in 1..Len(found) :
                found[i].type = type /\ found[i].severity = severity

\* C21: in every report, on every board, there is one high memory issue for
\* a leak exactly when the text has more malloc than free occurrences, and
\* one medium memory issue exactly when it has at least 4 prints of a string
\* literal of 10 or more characters outside F().
C21_LeakAndFlash ==
    Reported =>
        LET t == Served.code.text
        IN  /\ OneIssueIff(ret.report.issues,
                  "Potential memory leak: {malloc_count} malloc calls but only {free_count} free calls",
                  "memory", "high", Count(t, "mallocs") > Count(t, "frees"))
            /\ OneIssueIff(ret.report.issues,
                  "Found {string_literals} string literals without F() macro",
                  "memory", "medium", Count(t, "longstr") >= 4)

\* C21 witness: a report for a text with 2 malloc, 1 free and 4 long
\* literals, with the two memory issues.
C21_Witness ==
    /\ Reported
    /\ Count(Served.code.text, "mallocs") = 2
    /\ Count(Served.code.text, "frees") = 1
    /\ Count(Served.code.text, "longstr") = 4
    /\ NumType(ret.report.issues, "memory") = 2

C23_SafetyRules ==
    Reported =>
        LET t == Served.code.text
        IN  /\ OneIssueIff(ret.report.issues,
                  "Missing Serial.begin() - debugging will be difficult",
                  "safety", "low", ~Contains(t, "begin"))
            /\ OneIssueIff(ret.report.issues,
                  "Limited error checking - code may fail silently",
                  "safety", "medium", StrLen(t) > 500 /\ Count(t, "ifs") < 2)
            /\ NumType(ret.report.issues, "safety") <= 2

\* C23 witness: a report for a text of 501 characters with one if and no
\* Serial.begin, with the two safety issues.
C23_Witness ==
    /\ Reported
    /\ StrLen(Served.code.text) = 501
    /\ Count(Served.code.text, "ifs") = 1
    /\ NumType(ret.report.issues, "safety") = 2

\* C24: in every report there is one low style issue exactly when the text
\* has no const and more than 200 characters, one low style issue exactly
\* when it has more than 30 lines and fewer than 5 comment markers per 100
\* lines, and one medium style issue exactly when it has more than 50 lines
\* and at most 2 function definitions.
C24_StyleRules ==
    Reported =>
        LET t == Served.code.text
            lines == Count(t, "newlines") + 1
        IN  /\ OneIssueIff(ret.report.issues, "No const declarations found",
                  "style", "low", ~Contains(t, "const") /\ StrLen(t) > 200)
            /\ OneIssueIff(ret.report.issues, "Low comment density (<5%)",
                  "style", "low", lines > 30 /\ Count(t, "comments") * 20 < lines)
            /\ OneIssueIff(ret.report.issues,
                  "All code in setup/loop - no helper functions",
                  "style", "medium", lines > 50 /\ Count(t, "functions") <= 2)
            /\ NumType(ret.report.issues, "style") <= 3

\* C24 witness: a report for a text of more than 200 characters and 52
\* lines with one comment, one function and no const, with the three style
\* issues.
C24_Witness ==
    /\ Reported
    /\ StrLen(Served.code.text) > 200
    /\ Count(Served.code.text, "newlines") = 51
    /\ Count(Served.code.text, "comments") = 1
    /\ Count(Served.code.text, "functions") = 1
    /\ NumType(ret.report.issues, "style") = 3

(***************************************************************************)
(* Properties across severities, categories and boards (SpecRules).        *)
(***************************************************************************)
\* C29: no severity, category and board give a penalty of less than 1
\* point, no issue of any report does, and in every report the score is
\* 100 exactly when the issue list is empty, exactly when the overall
\* severity is excellent.
C29_EveryIssueCosts ==
    /\ \A sv \in Severities : \A ty \in IssueTypes : \A b \in BoardIds :
            Penalty([type |-> ty, severity |-> sv], BOARD_SPECS[b]) >= 1
    /\ Reported =>
            LET R == ret.report
            IN  /\ \A i \in 1..Len(R.issues) :
                        Penalty(R.issues[i], BoardGet(Served.board)) >= 1
                /\ (R.quality_score = 100) <=> (R.issues = <<>>)
                /\ (R.issues = <<>>) <=> (R.severity = "excellent")

\* C29 witness: a report whose only issue is a low one, the cheapest of
\* its category, and whose score is below 100.
C29_Witness ==
    /\ Reported
    /\ ret.report.issues_count = 1
    /\ ret.report.low_count = 1
    /\ ret.report.quality_score = 97
    /\ ret.report.severity = "low"

\* the report of a new analyzer for the served text on board b
OnBoard(b) == Fresh([code |-> Served.code, board |-> Str(b)])

Types(R) == [i \in 1..Len(R.issues) |-> R.issues[i].type]
Sevs(R) == [i \in 1..Len(R.issues) |-> R.issues[i].severity]

\* C30: for the text of every report, the three boards give issue lists of
\* one length with the same categories in the same order; esp32dev and
\* esp32s3 give the same severities and the same score; each issue on
\* esp32c3 is at least as severe as its counterpart on esp32dev and the
\* score on esp32c3 is not the greater; and the report returned is the one
\* of its board.
C30_BoardConsistency ==
    Reported =>
        LET d == OnBoard("esp32dev")
            s3 == OnBoard("esp32s3")
            c3 == OnBoard("esp32c3")
        IN  /\ IsReturn(d) /\ IsReturn(s3) /\ IsReturn(c3)
            /\ Types(d.report) = Types(s3.report)
            /\ Types(d.report) = Types(c3.report)
            /\ Sevs(d.report) = Sevs(s3.report)
            /\ d.report.quality_score = s3.report.quality_score
            /\ \A i \in 1..Len(d.report.issues) :
                    Rank(c3.report.issues[i].severity) >= Rank(d.report.issues[i].severity)
            /\ c3.report.quality_score <= d.report.quality_score
            /\ ret \in {d, s3, c3}

\* C30 witness: a report on esp32c3 with an array issue and a delay issue
\* that are more severe than on esp32dev, and a lower score.
C30_Witness ==
    /\ Reported
    /\ Served.board = Str("esp32c3")
    /\ NumType(ret.report.issues, "memory") > 0
    /\ NumType(ret.report.issues, "performance") > 0
    /\ Sevs(ret.report) # Sevs(OnBoard("esp32dev").report)
    /\ ret.report.quality_score < OnBoard("esp32dev").report.quality_score
    /\ ret.report.quality_score > 0

(***************************************************************************)
(* The response cache, the generate-code endpoint and the retry wrapper.   *)
(***************************************************************************)
\* C25: ResponseCache evicts the least recently used entry: when set finds
\* the cache holding max_size entries, the entry it removes is the one used
\* least recently, a successful get and a set of a key both counting as a
\* use of it; an entry read more recently than another is never removed
\* before that other one.
C25_EvictsLeastRecentlyUsed ==
    evicted # NoEviction => evicted.key = evicted.least_recent

\* C26: a generate-code request with the description, context, compile and
\* generate_docs of a request answered 200 less than the TTL ago is a cache
\* hit: the hits counter increases by one and the LLM is not invoked.
C26_RepeatIsHit ==
    http.repeat =>
        /\ http.cached
        /\ response_cache.hits = http.before.hits + 1
        /\ llm_calls = http.before.llm_calls

\* the invocations of the wrapped function, as places of the log
Invocations(w) == {i \in DOMAIN w.log : w.log[i].ev = "call"}

\* the waits of the wrapper, in their order
Waits(w) == SelectSeq(w.log, LAMBDA e : e.ev = "sleep")

\* the event is an invocation that raised one of the listed exceptions
RaisedListed(w, e) ==
    e.ev = "call" /\ e.raised # "" /\ Catches(w.exceptions, e.raised)

RECURSIVE Power(_, _)
Power(b, n) == IF n = 0 THEN 1 ELSE b * Power(b, n - 1)

\* C27: the wrapped function is invoked again only after it raised a listed
\* exception and at most max_retries times; its first successful result is
\* returned with no further invocation; when all max_retries invocations
\* raised a listed exception the wrapper raises CodeGenerationException; the
\* k-th wait, the one before invocation k + 1, lasts
\* initial_delay * backoff_factor^(k-1), and no wait follows the last failed
\* invocation.
C27_RetryWithBackoff ==
    LET w == retry
    IN  /\ Cardinality(Invocations(w)) <= w.max_retries
        /\ \A i \in Invocations(w) :
                i > 1 => /\ i > 2
                         /\ w.log[i - 1].ev = "sleep"
                         /\ RaisedListed(w, w.log[i - 2])
        /\ \A i \in Invocations(w) :
                w.log[i].raised = "" =>
                    /\ i = Len(w.log)
                    /\ w.pc = "done"
                    /\ w.result = Returned("value")
        /\ ( /\ Invocations(w) # {}
             /\ Cardinality(Invocations(w)) = w.max_retries
             /\ \A i \in Invocations(w) : RaisedListed(w, w.log[i]) )
            => /\ w.pc = "done"
               /\ w.result = Raised("CodeGenerationException")
        /\ \A k \in DOMAIN Waits(w) :
                Waits(w)[k].secs = w.initial_delay * Power(w.backoff_factor, k - 1)
        /\ \A i \in DOMAIN w.log :
                w.log[i].ev = "sleep" => i > 1 /\ RaisedListed(w, w.log[i - 1])
        /\ (w.pc = "done" /\ w.log # <<>>) => w.log[Len(w.log)].ev = "call"

\* three invocations raised a listed exception: waits of 1.0 s and 2.0 s,
\* then CodeGenerationException
C27_Witness ==
    /\ retry.pc = "done"
    /\ retry.max_retries = 3
    /\ retry.initial_delay = 10
    /\ retry.backoff_factor = 2
    /\ Cardinality(Invocations(retry)) = 3
    /\ Waits(retry) = <<SleepEvent(10), SleepEvent(20)>>
    /\ retry.result = Raised("CodeGenerationException")

\* a description the claim says is rejected: empty, shorter than 5 or
\* longer than 1000 characters once stripped, or holding a suspicious pattern
ClaimedInvalid(description) ==
    \/ StrFacts(description).chars = 0
    \/ StrFacts(description).stripped < 5
    \/ StrFacts(description).stripped > 1000
    \/ StrFacts(description).pattern # 0

=============================================================================
